---- MODULE Spec2Model ----
(***************************************************************************)
(* Dashboard widgets of the fitness-studio analytics product: every widget *)
(* receives the same in-memory list of class-session records (the `data`   *)
(* prop) and computes its aggregates while it renders.                     *)
(*                                                                         *)
(* JavaScript values are modelled as records tagged by k:                  *)
(*   undefined, NaN, Infinity, a finite number n/d (a reduced fraction,    *)
(*   exact for the small integers used here), a string s.                  *)
(* An array of session objects is a sequence; a group's `sessions` array   *)
(* holds references to the input objects and is modelled as the sequence   *)
(* of their indices in `data`.                                             *)
(***************************************************************************)
EXTENDS Integers, Sequences, FiniteSets, TLC

VARIABLES
    widget,                 \* which of the widgets this mounted component is
    data,                   \* the `data` prop the widget was given
    rendered,               \* whether the widget has rendered with this prop
    runs,                   \* how many times the widget has computed its aggregates
    aggregation,            \* what the latest aggregation returned, as it was returned
    previous,               \* what the aggregation before the latest returned
    classPerformanceData,   \* two-table ranking widget: the memoized array
    rowsWithEmpty,          \* two-table ranking widgets: what the first card draws: the ids
                            \* of the rows of its table and the keys of its drill-downs
    rowsWithoutEmpty,       \* two-table ranking widgets: what the second card draws
    sortedPerformance,      \* single-table ranking widget: the sorted rows
    performanceData,        \* class-format performance widget: the memoized rows
    utilizationData,        \* utilization widget: the memoized timeSlot/dayOfWeek/trainer rows
    metrics,                \* metric cards: the memoized metrics (or null)
    expandedRows,           \* two-table ranking widgets: the ids of the expanded groups
    editingSummary,         \* two-table ranking widgets: the edit flag of each section
    summaryWithEmpty,       \* two-table ranking widgets: the note of the first section
    summaryWithoutEmpty,    \* two-table ranking widgets: the note of the second section
    localStorage,           \* window.localStorage: the item stored under each key
    event,                  \* two-table ranking widgets: the latest render or user event
    events,                 \* two-table ranking widgets: the number of user events so far
    isLoading,              \* loading provider: whether the overlay is on
    loadingTitle,           \* loading provider: the title of the overlay
    loadingSubtitle,        \* loading provider: the subtitle of the overlay
    overlay,                \* loading provider: what the provider drew at its latest render
    queued,                 \* loading provider: the state updates queued since that render
    calls                   \* loading provider: the setLoading calls made so far

\* the state of the sections and rows of the two-table ranking widgets
interaction == <<expandedRows, editingSummary, summaryWithEmpty, summaryWithoutEmpty,
                 localStorage, event, events>>

\* the state of the loading provider
loader == <<isLoading, loadingTitle, loadingSubtitle, overlay, queued, calls>>

vars == <<widget, data, rendered, runs, aggregation, previous, classPerformanceData, rowsWithEmpty, rowsWithoutEmpty,
          sortedPerformance, performanceData, utilizationData, metrics, interaction, loader>>

-----------------------------------------------------------------------------
(* Bounds of the model *)

MaxLen == 3

\* the number of renders of a mounted widget that are followed: the parent passes
\* the same records again (the same array or an equal copy) and the aggregates are
\* computed from scratch
MaxRuns == 2

\* the longest `data` array the expandable two-table widget is mounted with
MaxShown == 2

\* the number of setLoading calls that are followed
MaxCalls == 2

\* the number of user events (clicks and text changes) that are followed on a
\* two-table ranking widget mounted with one of the small inputs, on which the
\* sequences of events are explored
MaxEvents == 3

\* the number of user events that are followed on a two-table ranking widget
\* mounted with an input of the specification, on which the aggregates are explored
MaxClicks == 1

-----------------------------------------------------------------------------
(* JavaScript values and the operators the widgets use on them *)

Undefined == [k |-> "undefined"]
Null == [k |-> "null"]
NaN == [k |-> "NaN"]
Infinity == [k |-> "Infinity"]
Str(s) == [k |-> "string", s |-> s]

RECURSIVE Gcd(_, _)
Gcd(a, b) == IF b = 0 THEN a ELSE Gcd(b, a % b)

Abs(x) == IF x < 0 THEN -x ELSE x

\* the finite number n/d, d > 0, as a reduced fraction
Frac(n, d) ==
    LET g == Gcd(Abs(n), d)
    IN  [k |-> "number", n |-> n \div g, d |-> d \div g]

N(i) == [k |-> "number", n |-> i, d |-> 1]

IsNumber(v) == v.k = "number"

\* ToBoolean(v): undefined, null, NaN, 0 and "" are falsy
Truthy(v) ==
    CASE v.k = "undefined" -> FALSE
      [] v.k = "null" -> FALSE
      [] v.k = "NaN" -> FALSE
      [] v.k = "number" -> v.n # 0
      [] v.k = "string" -> v.s # ""
      [] OTHER -> TRUE

\* a || b
Or(a, b) == IF Truthy(a) THEN a ELSE b

\* ToNumber(v) for the operands of + and /: undefined becomes NaN
ToNumber(v) == IF v.k \in {"number", "NaN", "Infinity"} THEN v ELSE NaN

\* a + b on numbers (no operand is ever negative or a string here)
Add(a, b) ==
    LET x == ToNumber(a)
        y == ToNumber(b)
    IN  CASE x.k = "NaN" \/ y.k = "NaN" -> NaN
          [] x.k = "Infinity" \/ y.k = "Infinity" -> Infinity
          [] OTHER -> Frac(x.n * y.d + y.n * x.d, x.d * y.d)

\* a - b on finite numbers or NaN (the comparators' subtraction)
Sub(a, b) ==
    LET x == ToNumber(a)
        y == ToNumber(b)
    IN  CASE x.k = "NaN" \/ y.k = "NaN" -> NaN
          [] x.k = "Infinity" /\ y.k = "Infinity" -> NaN
          [] x.k = "Infinity" -> Infinity
          [] y.k = "Infinity" -> [k |-> "-Infinity"]
          [] OTHER -> Frac(x.n * y.d - y.n * x.d, x.d * y.d)

\* a / b on non-negative numbers: x/0 is Infinity for x > 0 and NaN for x = 0
Div(a, b) ==
    LET x == ToNumber(a)
        y == ToNumber(b)
    IN  CASE x.k = "NaN" \/ y.k = "NaN" -> NaN
          [] x.k = "Infinity" /\ y.k = "Infinity" -> NaN
          [] x.k = "Infinity" -> Infinity
          [] y.k = "Infinity" -> N(0)
          [] y.n = 0 -> IF x.n = 0 THEN NaN ELSE Infinity
          [] OTHER -> Frac(x.n * y.d, x.d * y.n)

\* a * b on non-negative numbers
Mul(a, b) ==
    LET x == ToNumber(a)
        y == ToNumber(b)
    IN  CASE x.k = "NaN" \/ y.k = "NaN" -> NaN
          [] x.k = "Infinity" -> IF y.k = "number" /\ y.n = 0 THEN NaN ELSE Infinity
          [] y.k = "Infinity" -> IF x.n = 0 THEN NaN ELSE Infinity
          [] OTHER -> Frac(x.n * y.n, x.d * y.d)

\* a > b: false as soon as an operand converts to NaN
Gt(a, b) ==
    LET x == ToNumber(a)
        y == ToNumber(b)
    IN  CASE x.k = "NaN" \/ y.k = "NaN" -> FALSE
          [] x.k = "Infinity" -> y.k # "Infinity"
          [] y.k = "Infinity" -> FALSE
          [] OTHER -> x.n * y.d > y.n * x.d

Lt(a, b) == Gt(b, a)

\* a >= b
Ge(a, b) ==
    LET x == ToNumber(a)
        y == ToNumber(b)
    IN  CASE x.k = "NaN" \/ y.k = "NaN" -> FALSE
          [] x.k = "Infinity" -> TRUE
          [] y.k = "Infinity" -> FALSE
          [] OTHER -> x.n * y.d >= y.n * x.d

\* a === b where b is a number
StrictEq(a, b) == a.k = "number" /\ b.k = "number" /\ a = b

\* String(v), as a template literal renders it
StringOf(v) ==
    CASE v.k = "string" -> v.s
      [] v.k = "undefined" -> "undefined"
      [] OTHER -> "NaN"

\* the sign a sort comparator's result has for Array.prototype.sort: NaN counts as 0
Sign(v) ==
    CASE v.k = "number" -> (IF v.n > 0 THEN 1 ELSE IF v.n < 0 THEN -1 ELSE 0)
      [] v.k = "Infinity" -> 1
      [] v.k = "-Infinity" -> -1
      [] OTHER -> 0

-----------------------------------------------------------------------------
(* Arrays, Array.prototype.sort and the property order of plain objects *)

\* the array whose elements are f[1], ..., f[n], each computed once
AsArray(f) == f \o <<>>

\* the elements of a set of integers in ascending order
Ascending(S) ==
    AsArray([p \in 1..Cardinality(S) |-> CHOOSE i \in S : Cardinality({j \in S : j < i}) = p - 1])

\* values.reduce((sum, v) => sum + v, 0)
RECURSIVE SumOf(_)
SumOf(values) ==
    IF Len(values) = 0 THEN N(0)
    ELSE Add(SumOf(SubSeq(values, 1, Len(values) - 1)), values[Len(values)])

\* the table cmp[i][j] of the results of the comparator (a, b) => key(a) - key(b)
\* on an array whose elements have the keys keys[1], ..., keys[n]
ByKey(keys) ==
    AsArray([i \in 1..Len(keys) |-> AsArray([j \in 1..Len(keys) |-> Sub(keys[i], keys[j])])])

\* the same for the comparator (a, b) => key(b) - key(a)
ByKeyDescending(keys) ==
    AsArray([i \in 1..Len(keys) |-> AsArray([j \in 1..Len(keys) |-> Sub(keys[j], keys[i])])])

\* rows.map(r => r[field])
Column(rows, field) == AsArray([p \in 1..Len(rows) |-> rows[p][field]])

\* the JavaScript numbers of a sequence of integers
Numbers(ints) == AsArray([p \in 1..Len(ints) |-> N(ints[p])])

\* ECMAScript's "consistent comparator" condition on the elements of s, where
\* cmp[i][j] is the comparator's result on (s[i], s[j])
Consistent(s, cmp) ==
    LET I == 1..Len(s)
        sign == AsArray([i \in I |-> AsArray([j \in I |-> Sign(cmp[i][j])])])
        c(i, j) == sign[i][j]
    IN  /\ \A i \in I : c(i, i) = 0
        /\ \A i, j \in I : c(i, j) = -c(j, i)
        /\ \A i, j, l \in I : (c(i, j) = 0 /\ c(j, l) = 0) => c(i, l) = 0
        /\ \A i, j, l \in I : (c(i, j) < 0 /\ c(j, l) < 0) => c(i, l) < 0
        /\ \A i, j, l \in I : (c(i, j) = 0 /\ c(j, l) < 0) => c(i, l) < 0
        /\ \A i, j, l \in I : (c(i, j) < 0 /\ c(j, l) = 0) => c(i, l) < 0

\* the stable sort of s under a consistent comparator: s[j] goes before s[i] when
\* cmp[j][i] < 0, and elements that compare equal keep their order
StableSort(s, cmp) ==
    LET I == 1..Len(s)
        before(j, i) == \/ Sign(cmp[j][i]) < 0
                        \/ (Sign(cmp[j][i]) = 0 /\ j < i)
        pos(i) == 1 + Cardinality({j \in I : j # i /\ before(j, i)})
        at == AsArray([i \in I |-> pos(i)])
    IN  AsArray([p \in I |-> s[CHOOSE i \in I : at[i] = p]])

Reorderings(s) ==
    LET I == 1..Len(s)
    IN  {AsArray([p \in I |-> s[f[p]]]) : f \in {g \in [I -> I] : \A a, b \in I : a # b => g[a] # g[b]}}

\* what s.sort(comparator) may leave in s: the stable order when the comparator is
\* consistent on s, and otherwise an implementation-defined order of the same elements
SortOutcomes(s, cmp) ==
    IF Consistent(s, cmp) THEN {StableSort(s, cmp)} ELSE Reorderings(s)

\* the canonical numeric strings ("array indices") among the keys used here
Numerals == <<"0", "1", "2", "3", "4", "5", "6", "7", "8", "9", "10", "11", "12">>

ArrayIndex(key) ==
    IF \E i \in 1..Len(Numerals) : Numerals[i] = key
    THEN (CHOOSE i \in 1..Len(Numerals) : Numerals[i] = key) - 1
    ELSE -1

\* the distinct keys among itemKeys (the key of each item, in input order) in
\* first-encounter order: the order in which reduce creates the properties
InsertionKeys(itemKeys) ==
    LET firsts == {i \in 1..Len(itemKeys) : \A j \in 1..(i - 1) : itemKeys[j] # itemKeys[i]}
        order == Ascending(firsts)
    IN  AsArray([p \in 1..Len(order) |-> itemKeys[order[p]]])

\* Object.keys / Object.values / Object.entries order of an object whose properties
\* were created in the order `keys`: array indices ascending, then the other
\* strings in creation order
OwnKeys(keys) ==
    LET I == 1..Len(keys)
        idx == {i \in I : ArrayIndex(keys[i]) >= 0}
        indices == Ascending(idx)
        byValue == StableSort(indices,
                       ByKey(AsArray([p \in 1..Len(indices) |-> N(ArrayIndex(keys[indices[p]]))])))
        rest == Ascending(I \ idx)
    IN  AsArray([p \in I |-> IF p <= Len(byValue) THEN keys[byValue[p]]
                         ELSE keys[rest[p - Len(byValue)]]])

\* the indices of the items whose key is `key`, in input order (acc[key].push(session))
Members(itemKeys, key) ==
    Ascending({i \in 1..Len(itemKeys) : itemKeys[i] = key})

\* the keys of the groups of items in the order Object.values lists them
GroupKeys(itemKeys) == OwnKeys(InsertionKeys(itemKeys))

\* the values s[field] of the sessions at `indices`
Pick(items, indices, field) ==
    AsArray([p \in 1..Len(indices) |-> items[indices[p]][field]])

\* the values (s[field] || 0) of the sessions at `indices`
PickOrZero(items, indices, field) ==
    AsArray([p \in 1..Len(indices) |-> Or(items[indices[p]][field], N(0))])

\* new Date(v).getTime() in whole days since the epoch; NaN for an invalid date
Dates == <<"2024-01-01", "2024-01-02", "2024-01-03">>

GetTime(v) ==
    IF v.k = "string" /\ \E i \in 1..Len(Dates) : Dates[i] = v.s
    THEN N(19722 + (CHOOSE i \in 1..Len(Dates) : Dates[i] = v.s))
    ELSE NaN

-----------------------------------------------------------------------------
(* The two-table ranking widget: ClassPerformanceRankingTable with the      *)
(* "Including Empty Sessions" and "Excluding Empty Sessions" tables         *)

\* const key = session.uniqueId || `${session.cleanedClass || session.classType}-fallback`
GroupKey(session) ==
    IF Truthy(session.uniqueId)
    THEN StringOf(session.uniqueId)
    ELSE StringOf(Or(session.cleanedClass, session.classType)) \o "-fallback"

\* the key of each session, in input order
GroupKeysOf(items) == AsArray([i \in 1..Len(items) |-> GroupKey(items[i])])

\* session.cleanedClass || session.classType || session.sessionName || 'Unknown Class'
ClassName(session) ==
    StringOf(Or(Or(Or(session.cleanedClass, session.classType), session.sessionName),
                Str("Unknown Class")))

\* mutant of GroupedData: the push sits inside the creation branch, so a group
\* keeps only the session that created it
GroupedDataFirstOnly(items) ==
    LET keys == GroupKeys(GroupKeysOf(items))
    IN  AsArray([g \in 1..Len(keys) |->
            LET members == Members(GroupKeysOf(items), keys[g])
            IN  [uniqueId |-> keys[g],
                 className |-> ClassName(items[members[1]]),
                 sessions |-> <<members[1]>>]])

\* Object.values(groupedData): one {uniqueId, className, sessions} per key; the
\* className is the one of the session that created the group
GroupedData(items) ==
    LET keys == GroupKeys(GroupKeysOf(items))
    IN  AsArray([g \in 1..Len(keys) |->
            LET members == Members(GroupKeysOf(items), keys[g])
            IN  [uniqueId |-> keys[g],
                 className |-> ClassName(items[members[1]]),
                 sessions |-> members]])

\* s.revenue || s.totalPaid || 0
SessionRevenue(session) == Or(Or(session.revenue, session.totalPaid), N(0))

\* the revenue of each of the sessions at `indices`
Revenues(items, indices) ==
    AsArray([p \in 1..Len(indices) |-> SessionRevenue(items[indices[p]])])

\* fillPercentageWithoutEmpty of a group
FillPercentageWithoutEmpty(items, sessionsWithCheckIns, totalCheckIns, totalCapacity) ==
    IF Len(sessionsWithCheckIns) > 0 /\ Gt(totalCapacity, N(0))
    THEN Mul(Div(totalCheckIns,
                 SumOf(Pick(items, sessionsWithCheckIns, "capacity"))),
             N(100))
    ELSE N(0)

\* mutant of FillPercentage: the division without the totalCapacity > 0 guard
FillPercentageUnguarded(totalCheckIns, totalCapacity) ==
    Mul(Div(totalCheckIns, totalCapacity), N(100))

\* totalCapacity > 0 ? (totalCheckIns / totalCapacity) * 100 : 0
FillPercentage(totalCheckIns, totalCapacity) ==
    IF Gt(totalCapacity, N(0)) THEN Mul(Div(totalCheckIns, totalCapacity), N(100)) ELSE N(0)

\* mutant of Summary: avgCheckInsWithoutEmpty divides by the number of all the
\* sessions of the group
SummaryAveragedOverAll(items, group, individualSessions) ==
    LET sessions == group.sessions
        sessionsWithCheckIns == SelectSeq(sessions, LAMBDA i : Gt(items[i].checkedInCount, N(0)))
        emptySessions == SelectSeq(sessions, LAMBDA i : StrictEq(items[i].checkedInCount, N(0)))
        totalCheckIns == SumOf(Pick(items, sessions, "checkedInCount"))
        totalCapacity == SumOf(Pick(items, sessions, "capacity"))
        totalRevenue == SumOf(Revenues(items, sessions))
        avgCheckIns == Div(totalCheckIns, N(Len(sessions)))
        avgCheckInsWithoutEmpty ==
            IF Len(sessionsWithCheckIns) > 0
            THEN Div(totalCheckIns, N(Len(sessions)))
            ELSE N(0)
        fillPercentage == FillPercentage(totalCheckIns, totalCapacity)
    IN  [uniqueId |-> group.uniqueId,
         className |-> group.className,
         sessionCount |-> Len(sessions),
         totalCheckIns |-> totalCheckIns,
         totalCapacity |-> totalCapacity,
         avgCheckIns |-> avgCheckIns,
         avgCheckInsWithEmpty |-> avgCheckIns,
         avgCheckInsWithoutEmpty |-> avgCheckInsWithoutEmpty,
         fillPercentage |-> fillPercentage,
         fillPercentageWithEmpty |-> fillPercentage,
         fillPercentageWithoutEmpty |->
             FillPercentageWithoutEmpty(items, sessionsWithCheckIns, totalCheckIns, totalCapacity),
         totalRevenue |-> totalRevenue,
         avgRevenue |-> Div(totalRevenue, N(Len(sessions))),
         sessionsWithCheckIns |-> Len(sessionsWithCheckIns),
         emptySessions |-> Len(emptySessions),
         rank |-> 0,
         rankWithoutEmpty |-> 0,
         individualSessions |-> individualSessions]

\* mutant of Summary: a session counts as one with check-ins when checkedInCount >= 0
SummaryCountingAttended(items, group, individualSessions) ==
    LET sessions == group.sessions
        sessionsWithCheckIns == SelectSeq(sessions, LAMBDA i : Ge(items[i].checkedInCount, N(0)))
        emptySessions == SelectSeq(sessions, LAMBDA i : StrictEq(items[i].checkedInCount, N(0)))
        totalCheckIns == SumOf(Pick(items, sessions, "checkedInCount"))
        totalCapacity == SumOf(Pick(items, sessions, "capacity"))
        totalRevenue == SumOf(Revenues(items, sessions))
        avgCheckIns == Div(totalCheckIns, N(Len(sessions)))
        avgCheckInsWithoutEmpty ==
            IF Len(sessionsWithCheckIns) > 0
            THEN Div(totalCheckIns, N(Len(sessionsWithCheckIns)))
            ELSE N(0)
        fillPercentage == FillPercentage(totalCheckIns, totalCapacity)
    IN  [uniqueId |-> group.uniqueId,
         className |-> group.className,
         sessionCount |-> Len(sessions),
         totalCheckIns |-> totalCheckIns,
         totalCapacity |-> totalCapacity,
         avgCheckIns |-> avgCheckIns,
         avgCheckInsWithEmpty |-> avgCheckIns,
         avgCheckInsWithoutEmpty |-> avgCheckInsWithoutEmpty,
         fillPercentage |-> fillPercentage,
         fillPercentageWithEmpty |-> fillPercentage,
         fillPercentageWithoutEmpty |->
             FillPercentageWithoutEmpty(items, sessionsWithCheckIns, totalCheckIns, totalCapacity),
         totalRevenue |-> totalRevenue,
         avgRevenue |-> Div(totalRevenue, N(Len(sessions))),
         sessionsWithCheckIns |-> Len(sessionsWithCheckIns),
         emptySessions |-> Len(emptySessions),
         rank |-> 0,
         rankWithoutEmpty |-> 0,
         individualSessions |-> individualSessions]

\* the summary the map callback returns for one group; individualSessions is
\* what sessions.sort(by date, descending) left
Summary(items, group, individualSessions) ==
    LET sessions == group.sessions
        sessionsWithCheckIns == SelectSeq(sessions, LAMBDA i : Gt(items[i].checkedInCount, N(0)))
        emptySessions == SelectSeq(sessions, LAMBDA i : StrictEq(items[i].checkedInCount, N(0)))
        totalCheckIns == SumOf(Pick(items, sessions, "checkedInCount"))
        totalCapacity == SumOf(Pick(items, sessions, "capacity"))
        totalRevenue == SumOf(Revenues(items, sessions))
        avgCheckIns == Div(totalCheckIns, N(Len(sessions)))
        avgCheckInsWithoutEmpty ==
            IF Len(sessionsWithCheckIns) > 0
            THEN Div(totalCheckIns, N(Len(sessionsWithCheckIns)))
            ELSE N(0)
        fillPercentage == FillPercentage(totalCheckIns, totalCapacity)
    IN  [uniqueId |-> group.uniqueId,
         className |-> group.className,
         sessionCount |-> Len(sessions),
         totalCheckIns |-> totalCheckIns,
         totalCapacity |-> totalCapacity,
         avgCheckIns |-> avgCheckIns,
         avgCheckInsWithEmpty |-> avgCheckIns,
         avgCheckInsWithoutEmpty |-> avgCheckInsWithoutEmpty,
         fillPercentage |-> fillPercentage,
         fillPercentageWithEmpty |-> fillPercentage,
         fillPercentageWithoutEmpty |->
             FillPercentageWithoutEmpty(items, sessionsWithCheckIns, totalCheckIns, totalCapacity),
         totalRevenue |-> totalRevenue,
         avgRevenue |-> Div(totalRevenue, N(Len(sessions))),
         sessionsWithCheckIns |-> Len(sessionsWithCheckIns),
         emptySessions |-> Len(emptySessions),
         rank |-> 0,
         rankWithoutEmpty |-> 0,
         individualSessions |-> individualSessions]

\* performanceData.find(p => p.uniqueId === id): the index of the first match, 0 if none
FindByUniqueId(perf, id) ==
    LET hits == {j \in 1..Len(perf) : perf[j].uniqueId = id}
    IN  IF hits = {} THEN 0 ELSE CHOOSE j \in hits : \A h \in hits : j <= h

\* mutant of AssignRanks: the ranks are the indices, without the + 1
AssignRanksZeroBased(perf, sortedWithEmpty, sortedWithoutEmpty) ==
    AsArray([j \in 1..Len(perf) |->
        [perf[j] EXCEPT
            !.rank = (CHOOSE p \in 1..Len(perf) : sortedWithEmpty[p] = j) - 1,
            !.rankWithoutEmpty = (CHOOSE p \in 1..Len(perf) : sortedWithoutEmpty[p] = j) - 1]])

\* the two forEach loops: sortedWithEmpty and sortedWithoutEmpty are the orders
\* (sequences of indices into perf) the two sorted copies have
AssignRanks(perf, sortedWithEmpty, sortedWithoutEmpty) ==
    AsArray([j \in 1..Len(perf) |->
        LET p1 == {p \in 1..Len(sortedWithEmpty) : sortedWithEmpty[p] = j}
            p2 == {p \in 1..Len(sortedWithoutEmpty) :
                      FindByUniqueId(perf, perf[sortedWithoutEmpty[p]].uniqueId) = j}
            last(S) == IF S = {} THEN 0 ELSE CHOOSE p \in S : \A q \in S : q <= p
        IN  [perf[j] EXCEPT !.rank = last(p1), !.rankWithoutEmpty = last(p2)]])

\* mutant of Ranked: both comparators are a - b, an ascending sort
RankedAscending(perf) ==
    LET indices == AsArray([j \in 1..Len(perf) |-> j])
        withEmpty == SortOutcomes(indices, ByKey(Column(perf, "avgCheckInsWithEmpty")))
        withoutEmpty == SortOutcomes(indices, ByKey(Column(perf, "avgCheckInsWithoutEmpty")))
    IN  {AssignRanks(perf, o1, o2) : o1 \in withEmpty, o2 \in withoutEmpty}

\* mutant of Ranked: the second pass sorts the summaries themselves, not a copy
RankedSortingInPlace(perf) ==
    LET indices == AsArray([j \in 1..Len(perf) |-> j])
        withEmpty == SortOutcomes(indices, ByKeyDescending(Column(perf, "avgCheckInsWithEmpty")))
        withoutEmpty ==
            SortOutcomes(indices, ByKeyDescending(Column(perf, "avgCheckInsWithoutEmpty")))
    IN  {AsArray([p \in 1..Len(perf) |-> AssignRanks(perf, o1, o2)[o2[p]]]) :
            o1 \in withEmpty, o2 \in withoutEmpty}

\* the arrays the two ranking passes may leave for the summaries perf
Ranked(perf) ==
    LET indices == AsArray([j \in 1..Len(perf) |-> j])
        withEmpty == SortOutcomes(indices, ByKeyDescending(Column(perf, "avgCheckInsWithEmpty")))
        withoutEmpty ==
            SortOutcomes(indices, ByKeyDescending(Column(perf, "avgCheckInsWithoutEmpty")))
    IN  {AssignRanks(perf, o1, o2) : o1 \in withEmpty, o2 \in withoutEmpty}

\* mutant of ClassPerformanceData: individualSessions sorted by date ascending
ClassPerformanceDataSortedAscending(items) ==
    LET groups == GroupedData(items)
        G == 1..Len(groups)
        times(g) == AsArray([p \in 1..Len(groups[g].sessions) |->
                        GetTime(items[groups[g].sessions[p]].date)])
        byDate(g) == SortOutcomes(groups[g].sessions, ByKey(times(g)))
        orders == {ord \in [G -> UNION {byDate(g) : g \in G}] : \A g \in G : ord[g] \in byDate(g)}
    IN  UNION {Ranked(AsArray([g \in G |-> Summary(items, groups[g], ord[g])])) : ord \in orders}

\* the arrays the useMemo callback may return for a non-empty input
ClassPerformanceData(items) ==
    LET groups == GroupedData(items)
        G == 1..Len(groups)
        times(g) == AsArray([p \in 1..Len(groups[g].sessions) |->
                        GetTime(items[groups[g].sessions[p]].date)])
        byDate(g) == SortOutcomes(groups[g].sessions, ByKeyDescending(times(g)))
        orders == {ord \in [G -> UNION {byDate(g) : g \in G}] : \A g \in G : ord[g] \in byDate(g)}
    IN  UNION {Ranked(AsArray([g \in G |-> Summary(items, groups[g], ord[g])])) : ord \in orders}

\* what an aggregation returned: nothing yet, or the value v
NotComputed == [k |-> "none"]
Computed(v) == [k |-> "computed", v |-> v]

\* the `data` prop: undefined, or an array
NoData == [k |-> "undefined"]
ArrayData(items) == [k |-> "array", items |-> items]

\* !data || data.length === 0
IsEmptyData(d) == d.k = "undefined" \/ Len(d.items) = 0

UniqueIds(rows) == AsArray([p \in 1..Len(rows) |-> rows[p].uniqueId])

-----------------------------------------------------------------------------
(* The state the two-table ranking widgets keep between renders: the notes  *)
(* of the two summary sections, kept in localStorage, the edit flags and    *)
(* the expanded rows                                                        *)

Sections == {"withEmpty", "withoutEmpty"}

OtherSection(section) == IF section = "withEmpty" THEN "withoutEmpty" ELSE "withEmpty"

\* the localStorage key of each section's note
StorageKey(section) ==
    IF section = "withEmpty"
    THEN "class-performance-summary-with-empty"
    ELSE "class-performance-summary-without-empty"

StorageKeys == {StorageKey(section) : section \in Sections}

\* the initial note of each section (its first line, without the bullet)
InitialSummary(section) ==
    IF section = "withEmpty"
    THEN "Classes are ranked by average check-ins including empty sessions"
    ELSE "Classes are ranked by average check-ins excluding empty sessions"

\* the title of each section, as its words
SectionTitle(section) ==
    IF section = "withEmpty"
    THEN <<"Key", "Insights", "(Including", "Empty", "Sessions)">>
    ELSE <<"Key", "Insights", "(Excluding", "Empty", "Sessions)">>

\* title.includes(word), for a word that can only occur in a title as one of its words
Includes(title, word) == \E i \in 1..Len(title) : title[i] = word

\* title.includes('Empty') ? 'withEmpty' : 'withoutEmpty'
SaveType(title) == IF Includes(title, "Empty") THEN "withEmpty" ELSE "withoutEmpty"

\* the texts a user types into a note, and a text found in the store at mount
TypedTexts == {"", "Barre is full\nAdd a class"}
StoredTexts == TypedTexts \cup {"Kept from last week"}

\* JSON.stringify of a string: the text between double quotes, a line break escaped
Stringify(text) ==
    IF text = "Barre is full\nAdd a class"
    THEN "\"Barre is full\\nAdd a class\""
    ELSE "\"" \o text \o "\""

\* JSON.parse of an item: the text it encodes, or undefined when it throws
Parse(item) ==
    IF \E text \in StoredTexts : Stringify(text) = item
    THEN Str(CHOOSE text \in StoredTexts : Stringify(text) = item)
    ELSE Undefined

\* the useState initializer of useLocalStorage: item ? JSON.parse(item) : initialValue,
\* and initialValue when JSON.parse throws
ReadStored(store, key, initialValue) ==
    LET item == store[key]
    IN  IF item.k = "string" /\ item.s # "" /\ Parse(item.s) # Undefined
        THEN Parse(item.s)
        ELSE Str(initialValue)

\* the catch of the useState initializer: JSON.parse throws on an item that is not
\* JSON and console.error('Error reading from localStorage:', error) is called
ReadLogged(store, key) ==
    LET item == store[key]
    IN  item.k = "string" /\ item.s # "" /\ Parse(item.s) = Undefined

\* the stores the widget may find at mount: under each key nothing, an encoded note
\* or an item that is not JSON
StoredItems == {Null, Str(Stringify("Kept from last week")), Str("{note")}
Stores == [StorageKeys -> StoredItems]

\* the latest user event: its kind, the section, row id and text it carries, and
\* whether its handler logged an error with console.error
NoEvent == [kind |-> "none", section |-> "", id |-> "", text |-> "", logged |-> FALSE]
UserEvent(kind, section, id, text) ==
    [kind |-> kind, section |-> section, id |-> id, text |-> text, logged |-> FALSE]

\* mutant of ToggledRows: the id is added and never deleted
ToggledRowsAddOnly(prev, uniqueId) == prev \cup {uniqueId}

\* setExpandedRows(prev => ...): a copy of the set with the id deleted if it has it,
\* added otherwise
ToggledRows(prev, uniqueId) ==
    IF uniqueId \in prev THEN prev \ {uniqueId} ELSE prev \cup {uniqueId}

\* a session record with every field the widgets read
BaseSession ==
    [uniqueId |-> Undefined, cleanedClass |-> Str("HIIT"), classType |-> Undefined,
     sessionName |-> Undefined, date |-> Str("2024-01-01"), dayOfWeek |-> Str("Monday"),
     time |-> Str("07:30"), trainerName |-> Str("Ana"), capacity |-> N(10),
     checkedInCount |-> N(5), bookedCount |-> N(5), lateCancelledCount |-> N(0),
     revenue |-> N(0), totalPaid |-> N(0)]

\* the records of the small inputs: one session of each of two classes
ShownSessions ==
    {[BaseSession EXCEPT !.cleanedClass = Str("HIIT"), !.checkedInCount = N(5)],
     [BaseSession EXCEPT !.cleanedClass = Str("Barre"), !.checkedInCount = N(10)]}

\* the small inputs: undefined, or an array of at most MaxShown of these records
ShownInputs ==
    {NoData} \cup {ArrayData(items) : items \in UNION {[1..n -> ShownSessions] : n \in 0..MaxShown}}

\* the two useLocalStorage hooks: their useState initializers run at the first
\* render and read the notes, logging an error for an item that is not JSON; a
\* later render keeps the notes and logs nothing
ReadNotes ==
    /\ summaryWithEmpty' =
           IF rendered THEN summaryWithEmpty
           ELSE ReadStored(localStorage, StorageKey("withEmpty"), InitialSummary("withEmpty"))
    /\ summaryWithoutEmpty' =
           IF rendered THEN summaryWithoutEmpty
           ELSE ReadStored(localStorage, StorageKey("withoutEmpty"), InitialSummary("withoutEmpty"))
    /\ event' = IF rendered
                THEN UserEvent("render", "", "", "")
                ELSE [UserEvent("mount", "", "", "") EXCEPT
                         !.logged = \E section \in Sections :
                                       ReadLogged(localStorage, StorageKey(section))]

-----------------------------------------------------------------------------
(* The two-table ranking widget drawn with ModernDataTable components *)

\* classPerformanceData.map(classData => expandedRows.has(classData.uniqueId) && ...):
\* the keys of the drill-downs drawn under a table, in the order the array has then
DrillDowns(sortedData, expanded, prefix) ==
    LET open == SelectSeq(sortedData, LAMBDA classData : classData.uniqueId \in expanded)
    IN  AsArray([p \in 1..Len(open) |-> prefix \o open[p].uniqueId])

\* the render of the two cards from the memoized array: building the element of the
\* first table sorts the array in place by rank and passes the array as the `data`
\* prop, the drill-downs of the first card are built from the array as it is then,
\* building the element of the second table sorts the same array in place by
\* rankWithoutEmpty and passes the same array; the two ModernDataTable components
\* render after the parent has returned its elements, and both then hold the array
\* in its final order
DrawModernTables(memo, expanded) ==
    LET first == StableSort(memo, ByKey(Numbers(Column(memo, "rank"))))
        second == StableSort(first, ByKey(Numbers(Column(first, "rankWithoutEmpty"))))
    IN  /\ classPerformanceData' = second
        /\ rowsWithEmpty' = UniqueIds(second) \o DrillDowns(first, expanded, "drill-")
        /\ rowsWithoutEmpty' = UniqueIds(second) \o DrillDowns(second, expanded, "drill-no-empty-")

\* mutant of RenderRankingTables: the date-descending sort acts on the `data`
\* array itself
RenderRankingTablesSortingData ==
    /\ widget = "rankingTables" /\ runs < MaxRuns
    /\ rendered' = TRUE
    /\ runs' = runs + 1
    /\ previous' = aggregation
    /\ ReadNotes
    /\ IF IsEmptyData(data)
       THEN /\ aggregation' = Computed(<<>>)
            /\ classPerformanceData' = <<>>
            /\ rowsWithEmpty' = <<>>
            /\ rowsWithoutEmpty' = <<>>
            /\ data' = data
       ELSE \E memo \in ClassPerformanceData(data.items) :
                LET times == AsArray([i \in 1..Len(data.items) |-> GetTime(data.items[i].date)])
                IN  /\ aggregation' = Computed(memo)
                    /\ DrawModernTables(memo, expandedRows)
                    /\ data' = ArrayData(StableSort(data.items, ByKeyDescending(times)))
    /\ UNCHANGED <<widget, sortedPerformance, performanceData, utilizationData, metrics,
                   expandedRows, editingSummary, localStorage, events, loader>>

\* one render of the widget with a `data` array it has not memoized: at the first
\* render the notes are read; the memo is computed and the two cards are drawn
RenderRankingTables ==
    /\ widget = "rankingTables" /\ runs < MaxRuns
    /\ rendered' = TRUE
    /\ runs' = runs + 1
    /\ previous' = aggregation
    /\ ReadNotes
    /\ IF IsEmptyData(data)
       THEN /\ aggregation' = Computed(<<>>)
            /\ classPerformanceData' = <<>>
            /\ rowsWithEmpty' = <<>>
            /\ rowsWithoutEmpty' = <<>>
       ELSE \E memo \in ClassPerformanceData(data.items) :
                /\ aggregation' = Computed(memo)
                /\ DrawModernTables(memo, expandedRows)
    /\ UNCHANGED <<widget, data, sortedPerformance, performanceData, utilizationData, metrics,
                   expandedRows, editingSummary, localStorage, events, loader>>

-----------------------------------------------------------------------------
(* The expandable two-table ranking widget: ClassPerformanceRankingTable    *)
(* drawing its rows with renderTableRows, the drill-down row of a group     *)
(* under the row of the group                                               *)

\* the fields of the summaries this widget builds
ExpandableFields ==
    {"uniqueId", "className", "sessionCount", "totalCheckIns", "avgCheckIns",
     "avgCheckInsWithoutEmpty", "fillPercentage", "fillPercentageWithoutEmpty",
     "totalRevenue", "rank", "rankWithoutEmpty", "individualSessions", "emptySessions",
     "sessionsWithCheckIns"}

\* the summary the map callback of this widget returns for one group: the same
\* computations as in the widget drawn with ModernDataTable, without totalCapacity,
\* avgCheckInsWithEmpty, fillPercentageWithEmpty and avgRevenue
ExpandableSummary(items, group, individualSessions) ==
    LET summary == Summary(items, group, individualSessions)
    IN  [field \in ExpandableFields |-> summary[field]]

\* the arrays the two ranking passes of this widget may leave: the first pass
\* sorts a copy by avgCheckIns
ExpandableRanked(perf) ==
    LET indices == AsArray([j \in 1..Len(perf) |-> j])
        withEmpty == SortOutcomes(indices, ByKeyDescending(Column(perf, "avgCheckIns")))
        withoutEmpty ==
            SortOutcomes(indices, ByKeyDescending(Column(perf, "avgCheckInsWithoutEmpty")))
    IN  {AssignRanks(perf, o1, o2) : o1 \in withEmpty, o2 \in withoutEmpty}

\* the arrays the useMemo callback of this widget may return for a non-empty input
ExpandableClassPerformanceData(items) ==
    LET groups == GroupedData(items)
        G == 1..Len(groups)
        times(g) == AsArray([p \in 1..Len(groups[g].sessions) |->
                        GetTime(items[groups[g].sessions[p]].date)])
        byDate(g) == SortOutcomes(groups[g].sessions, ByKeyDescending(times(g)))
        orders == {ord \in [G -> UNION {byDate(g) : g \in G}] : \A g \in G : ord[g] \in byDate(g)}
    IN  UNION {ExpandableRanked(AsArray([g \in G |->
                   ExpandableSummary(items, groups[g], ord[g])])) : ord \in orders}

\* renderTableRows: for each summary its row, followed by its drill-down row when
\* the group is expanded; a row is named by its key
RECURSIVE renderTableRows(_, _)
renderTableRows(sortedData, expanded) ==
    IF Len(sortedData) = 0
    THEN <<>>
    ELSE LET classData == Head(sortedData)
         IN  <<classData.uniqueId>>
             \o (IF classData.uniqueId \in expanded
                 THEN <<"drill-" \o classData.uniqueId>> ELSE <<>>)
             \o renderTableRows(Tail(sortedData), expanded)

\* the render of the two tables from the memoized array: each table sorts the array
\* in place and draws its rows at once
DrawTables(memo, expanded) ==
    LET first == StableSort(memo, ByKey(Numbers(Column(memo, "rank"))))
        second == StableSort(first, ByKey(Numbers(Column(first, "rankWithoutEmpty"))))
    IN  /\ classPerformanceData' = second
        /\ rowsWithEmpty' = renderTableRows(first, expanded)
        /\ rowsWithoutEmpty' = renderTableRows(second, expanded)

\* mount and first render: the notes are read from localStorage, the memo is
\* computed, the tables are drawn
RenderExpandableTables ==
    /\ widget = "expandableTables" /\ ~rendered
    /\ rendered' = TRUE
    /\ runs' = runs + 1
    /\ previous' = aggregation
    /\ ReadNotes
    /\ IF IsEmptyData(data)
       THEN /\ aggregation' = Computed(<<>>)
            /\ classPerformanceData' = <<>>
            /\ rowsWithEmpty' = <<>>
            /\ rowsWithoutEmpty' = <<>>
       ELSE \E memo \in ExpandableClassPerformanceData(data.items) :
                /\ aggregation' = Computed(memo)
                /\ DrawTables(memo, expandedRows)
    /\ UNCHANGED <<widget, data, sortedPerformance, performanceData, utilizationData, metrics,
                   expandedRows, editingSummary, localStorage, events, loader>>

-----------------------------------------------------------------------------
(* The handlers of the two-table ranking widgets: both widgets define the   *)
(* same toggleRowExpansion, handleSaveSummary and SummarySection            *)

\* the widget shows its tables and sections: it has rendered a non-empty `data`
ShowsTables ==
    /\ widget \in {"rankingTables", "expandableTables"}
    /\ rendered /\ ~IsEmptyData(data)

\* one more user event on a widget that shows its tables
FollowedEvent ==
    /\ ShowsTables
    /\ events < (IF data \in ShownInputs THEN MaxEvents ELSE MaxClicks)
    /\ events' = events + 1

\* the render after a handler has set state: the memoized array is kept (`data` is
\* the same array) and the tables are drawn from it
Redraw(expanded) ==
    IF widget = "rankingTables"
    THEN DrawModernTables(classPerformanceData, expanded)
    ELSE DrawTables(classPerformanceData, expanded)

\* a click on the chevron of a group's row, in either table, and the render after it
toggleRowExpansion(uniqueId) ==
    /\ FollowedEvent
    /\ uniqueId \in {classPerformanceData[p].uniqueId : p \in 1..Len(classPerformanceData)}
    /\ expandedRows' = ToggledRows(expandedRows, uniqueId)
    /\ event' = UserEvent("toggle", "", uniqueId, "")
    /\ Redraw(expandedRows')
    /\ UNCHANGED <<widget, data, rendered, runs, aggregation, previous, sortedPerformance,
                   performanceData, utilizationData, metrics, editingSummary,
                   summaryWithEmpty, summaryWithoutEmpty, localStorage, loader>>

\* setEditingSummary(prev => ({ ...prev, [type]: false }))
handleSaveSummary(type) == editingSummary' = [editingSummary EXCEPT ![type] = FALSE]

\* what a click in a section leaves alone, and the render after it
SectionFrame ==
    /\ Redraw(expandedRows)
    /\ UNCHANGED <<widget, data, rendered, runs, aggregation, previous, sortedPerformance,
                   performanceData, utilizationData, metrics, expandedRows, loader>>

\* a click on the button in the header of a section: Save when the section is in
\* edit mode, Edit otherwise
ClickSectionButton(section) ==
    /\ FollowedEvent
    /\ IF editingSummary[section]
       THEN /\ handleSaveSummary(SaveType(SectionTitle(section)))
            /\ event' = UserEvent("save", section, "", "")
       ELSE /\ editingSummary' = [editingSummary EXCEPT ![section] = TRUE]
            /\ event' = UserEvent("edit", section, "", "")
    /\ UNCHANGED <<summaryWithEmpty, summaryWithoutEmpty, localStorage>>
    /\ SectionFrame

\* a click on Save Changes, shown in edit mode under the text area
ClickSaveChanges(section) ==
    /\ FollowedEvent /\ editingSummary[section]
    /\ handleSaveSummary(SaveType(SectionTitle(section)))
    /\ event' = UserEvent("save", section, "", "")
    /\ UNCHANGED <<summaryWithEmpty, summaryWithoutEmpty, localStorage>>
    /\ SectionFrame

\* a click on Cancel, shown in edit mode: setIsEditing(false)
ClickCancel(section) ==
    /\ FollowedEvent /\ editingSummary[section]
    /\ editingSummary' = [editingSummary EXCEPT ![section] = FALSE]
    /\ event' = UserEvent("cancel", section, "", "")
    /\ UNCHANGED <<summaryWithEmpty, summaryWithoutEmpty, localStorage>>
    /\ SectionFrame

\* mutant of ChangeSummary: the text is kept in the component and never written
\* to localStorage
ChangeSummaryNotStored(section, text, accepted) ==
    /\ FollowedEvent /\ editingSummary[section]
    /\ IF section = "withEmpty"
       THEN summaryWithEmpty' = Str(text) /\ UNCHANGED summaryWithoutEmpty
       ELSE summaryWithoutEmpty' = Str(text) /\ UNCHANGED summaryWithEmpty
    /\ event' = [UserEvent("change", section, "", text) EXCEPT !.logged = ~accepted]
    /\ UNCHANGED <<editingSummary, localStorage>>
    /\ SectionFrame

\* a change of the text area, shown in edit mode: setSummary(e.target.value), the
\* setValue of useLocalStorage: setStoredValue(value), then
\* window.localStorage.setItem(key, JSON.stringify(value)) in a try block; the
\* store accepts the write, or setItem throws (the quota is exceeded, the storage
\* is disabled), the error is caught and logged with console.error and the item
\* stays as it was
ChangeSummary(section, text, accepted) ==
    /\ FollowedEvent /\ editingSummary[section]
    /\ IF section = "withEmpty"
       THEN summaryWithEmpty' = Str(text) /\ UNCHANGED summaryWithoutEmpty
       ELSE summaryWithoutEmpty' = Str(text) /\ UNCHANGED summaryWithEmpty
    /\ localStorage' = IF accepted
                       THEN [localStorage EXCEPT ![StorageKey(section)] = Str(Stringify(text))]
                       ELSE localStorage
    /\ event' = [UserEvent("change", section, "", text) EXCEPT !.logged = ~accepted]
    /\ UNCHANGED editingSummary
    /\ SectionFrame

-----------------------------------------------------------------------------
(* The loading provider: LoadingProvider *)

\* useState('Loading...') and useState('Please wait while we fetch your data')
DefaultTitle == "Loading..."
DefaultSubtitle == "Please wait while we fetch your data"

\* the optional arguments of a call: omitted, empty or a text
TitleArguments == {Undefined, Str(""), Str("Syncing sessions"), Str("Saving notes")}
SubtitleArguments == {Undefined, Str(""), Str("Almost done")}

\* isLoading ? <RefinedLoader title subtitle /> : children
Overlay(loading, title, subtitle) ==
    IF loading
    THEN [kind |-> "loader", title |-> title, subtitle |-> subtitle]
    ELSE [kind |-> "children", title |-> "", subtitle |-> ""]

\* what is on the screen before the provider has rendered
NothingDrawn == [kind |-> "none", title |-> "", subtitle |-> ""]

\* one queued state update: the setter called and its argument
Update(setter, value) == [setter |-> setter, value |-> value]

\* mutant of StateUpdates: a call without a title or subtitle restores the default
StateUpdatesRestoringDefaults(loading, title, subtitle) ==
    <<Update("isLoading", loading),
      Update("loadingTitle", IF Truthy(title) THEN title.s ELSE DefaultTitle),
      Update("loadingSubtitle", IF Truthy(subtitle) THEN subtitle.s ELSE DefaultSubtitle)>>

\* the body of setLoading: setIsLoading(loading); if (title) setLoadingTitle(title);
\* if (subtitle) setLoadingSubtitle(subtitle)
StateUpdates(loading, title, subtitle) ==
    <<Update("isLoading", loading)>>
    \o (IF Truthy(title) THEN <<Update("loadingTitle", title.s)>> ELSE <<>>)
    \o (IF Truthy(subtitle) THEN <<Update("loadingSubtitle", subtitle.s)>> ELSE <<>>)

\* the state of a hook as of the latest render
Committed(setter) ==
    CASE setter = "isLoading" -> isLoading
      [] setter = "loadingTitle" -> loadingTitle
      [] setter = "loadingSubtitle" -> loadingSubtitle

\* the queues the setter calls may leave: a call is queued for the next render;
\* a call that sets a hook to the state it has while nothing is queued may be
\* dropped at once, without a render (React decides from the work it has pending)
RECURSIVE Enqueued(_, _)
Enqueued(queue, updates) ==
    IF Len(updates) = 0
    THEN {queue}
    ELSE LET update == Head(updates)
         IN  Enqueued(Append(queue, update), Tail(updates))
             \cup (IF Len(queue) = 0 /\ Committed(update.setter) = update.value
                   THEN Enqueued(queue, Tail(updates))
                   ELSE {})

\* the state a hook has once the queued updates are applied in order: the value of
\* the latest update of that hook, its state as it is if there is none
Applied(queue, setter) ==
    LET hits == {i \in 1..Len(queue) : queue[i].setter = setter}
    IN  IF hits = {}
        THEN Committed(setter)
        ELSE queue[CHOOSE i \in hits : \A j \in hits : j <= i].value

\* setLoading(loading, title?, subtitle?), called by a component that holds the
\* context of a rendered provider: the state updates are queued and the call
\* returns; the state and the screen stay as the latest render left them
setLoading(loading, title, subtitle) ==
    /\ widget = "loadingProvider" /\ rendered /\ Len(calls) < MaxCalls
    /\ queued' \in Enqueued(queued, StateUpdates(loading, title, subtitle))
    /\ calls' = Append(calls, [loading |-> loading, title |-> title, subtitle |-> subtitle])
    /\ UNCHANGED <<widget, data, rendered, runs, aggregation, previous, classPerformanceData,
                   rowsWithEmpty, rowsWithoutEmpty, sortedPerformance, performanceData,
                   utilizationData, metrics, interaction, isLoading, loadingTitle,
                   loadingSubtitle, overlay>>

\* a render of the provider, the first one or one React runs for queued updates
\* (the updates of the calls made since the latest render are applied together, in
\* order): the hooks take their new state and the loader or the children are drawn
RenderLoadingProvider ==
    /\ widget = "loadingProvider" /\ (~rendered \/ Len(queued) > 0)
    /\ rendered' = TRUE
    /\ isLoading' = Applied(queued, "isLoading")
    /\ loadingTitle' = Applied(queued, "loadingTitle")
    /\ loadingSubtitle' = Applied(queued, "loadingSubtitle")
    /\ overlay' = Overlay(isLoading', loadingTitle', loadingSubtitle')
    /\ queued' = <<>>
    /\ UNCHANGED <<widget, data, runs, aggregation, previous, classPerformanceData,
                   rowsWithEmpty, rowsWithoutEmpty, sortedPerformance, performanceData,
                   utilizationData, metrics, interaction, calls>>

-----------------------------------------------------------------------------
(* The single-table ranking widget: ClassPerformanceRankingTable.tsx *)

\* session.cleanedClass || session.classType || 'Unknown Class'
RankingClassName(session) ==
    StringOf(Or(Or(session.cleanedClass, session.classType), Str("Unknown Class")))

\* the className of each session, in input order
RankingClassNames(items) == AsArray([i \in 1..Len(items) |-> RankingClassName(items[i])])

\* Object.entries(classGroups).map(...)
ClassPerformance(items) ==
    LET keys == GroupKeys(RankingClassNames(items))
    IN  AsArray([g \in 1..Len(keys) |->
            LET sessions == Members(RankingClassNames(items), keys[g])
                totalCheckIns == SumOf(Pick(items, sessions, "checkedInCount"))
                totalRevenue == SumOf(Revenues(items, sessions))
                avgCheckIns == Div(totalCheckIns, N(Len(sessions)))
                totalCapacity == SumOf(Pick(items, sessions, "capacity"))
            IN  [className |-> keys[g],
                 sessionCount |-> Len(sessions),
                 avgCheckIns |-> avgCheckIns,
                 fillPercentage |-> FillPercentage(totalCheckIns, totalCapacity),
                 totalRevenue |-> totalRevenue,
                 totalCheckIns |-> totalCheckIns]])

\* classPerformance.sort((a, b) => b.avgCheckIns - a.avgCheckIns); the row at
\* index i is displayed with rank i + 1
SortedPerformance(items) ==
    LET classPerformance == ClassPerformance(items)
    IN  SortOutcomes(classPerformance, ByKeyDescending(Column(classPerformance, "avgCheckIns")))

RenderRankingTable ==
    /\ widget = "rankingTable" /\ runs < MaxRuns
    /\ rendered' = TRUE
    /\ runs' = runs + 1
    /\ previous' = aggregation
    /\ IF IsEmptyData(data)
       THEN sortedPerformance' = <<>>
       ELSE \E rows \in SortedPerformance(data.items) : sortedPerformance' = rows
    /\ aggregation' = Computed(sortedPerformance')
    /\ UNCHANGED <<widget, data, classPerformanceData, rowsWithEmpty, rowsWithoutEmpty,
                   performanceData, utilizationData, metrics, interaction, loader>>

-----------------------------------------------------------------------------
(* The class-format performance widget: ClassAttendancePerformanceTable *)

\* session.cleanedClass || session.classType || 'Unknown'
FormatOf(session) ==
    StringOf(Or(Or(session.cleanedClass, session.classType), Str("Unknown")))

\* the format of each session, in input order
FormatsOf(items) == AsArray([i \in 1..Len(items) |-> FormatOf(items[i])])

\* the accumulator entry of one format after the reduce
FormatStat(items, format) ==
    LET sessions == Members(FormatsOf(items), format)
    IN  [format |-> format,
         totalSessions |-> Len(sessions),
         totalCapacity |-> SumOf(PickOrZero(items, sessions, "capacity")),
         totalCheckedIn |-> SumOf(PickOrZero(items, sessions, "checkedInCount")),
         totalRevenue |-> SumOf(PickOrZero(items, sessions, "totalPaid")),
         totalBooked |-> SumOf(PickOrZero(items, sessions, "bookedCount")),
         totalLateCancelled |->
             SumOf(PickOrZero(items, sessions, "lateCancelledCount")),
         emptySessions |->
             Len(SelectSeq(sessions,
                           LAMBDA i : StrictEq(Or(items[i].checkedInCount, N(0)), N(0)))),
         revenueGeneratingSessions |->
             Len(SelectSeq(sessions, LAMBDA i : Gt(Or(items[i].totalPaid, N(0)), N(0))))]

\* the derived ratios of one format
FormatRatios(stat) ==
    [fillRate |-> IF Gt(stat.totalCapacity, N(0))
                  THEN Mul(Div(stat.totalCheckedIn, stat.totalCapacity), N(100)) ELSE N(0),
     showUpRate |-> IF Gt(stat.totalBooked, N(0))
                    THEN Mul(Div(stat.totalCheckedIn, stat.totalBooked), N(100)) ELSE N(0),
     utilizationRate |-> IF stat.totalSessions > 0
                         THEN Mul(Div(N(stat.totalSessions - stat.emptySessions),
                                      N(stat.totalSessions)), N(100))
                         ELSE N(0),
     avgRevenue |-> IF stat.totalSessions > 0
                    THEN Div(stat.totalRevenue, N(stat.totalSessions)) ELSE N(0),
     revenuePerAttendee |-> IF Gt(stat.totalCheckedIn, N(0))
                            THEN Div(stat.totalRevenue, stat.totalCheckedIn) ELSE N(0),
     efficiency |-> IF Gt(stat.totalCapacity, N(0))
                    THEN Div(stat.totalRevenue, stat.totalCapacity) ELSE N(0),
     cancellationRate |-> IF Gt(stat.totalBooked, N(0))
                          THEN Mul(Div(stat.totalLateCancelled, stat.totalBooked), N(100))
                          ELSE N(0),
     revenueEfficiency |-> IF stat.totalSessions > 0
                           THEN Mul(Div(N(stat.revenueGeneratingSessions),
                                        N(stat.totalSessions)), N(100))
                           ELSE N(0)]

\* Object.values(formatStats).map(...).sort((a, b) => b.totalSessions - a.totalSessions)
PerformanceData(items) ==
    LET keys == GroupKeys(FormatsOf(items))
        rows == AsArray([g \in 1..Len(keys) |->
                    LET stat == FormatStat(items, keys[g])
                    IN  stat @@ FormatRatios(stat)])
    IN  StableSort(rows, ByKeyDescending(Numbers(Column(rows, "totalSessions"))))

RenderPerformanceTable ==
    /\ widget = "performanceTable" /\ runs < MaxRuns
    /\ rendered' = TRUE
    /\ runs' = runs + 1
    /\ previous' = aggregation
    /\ performanceData' = IF IsEmptyData(data) THEN <<>> ELSE PerformanceData(data.items)
    /\ aggregation' = Computed(performanceData')
    /\ UNCHANGED <<widget, data, classPerformanceData, rowsWithEmpty, rowsWithoutEmpty,
                   sortedPerformance, utilizationData, metrics, interaction, loader>>

-----------------------------------------------------------------------------
(* The utilization widget: ClassAttendanceUtilizationTable *)

\* the threshold literals 0.5 and 0.9
LowThreshold == Frac(1, 2)
FullThreshold == Frac(9, 10)

\* mutant of IsEmptySession: a missing checkedInCount is not read as 0
IsEmptySessionStrict(session) == StrictEq(session.checkedInCount, N(0))

\* const attendance = session.checkedInCount || 0; if (attendance === 0)
IsEmptySession(session) == StrictEq(Or(session.checkedInCount, N(0)), N(0))

\* mutant of IsLowAttendance: the test is an `if` of its own, not an `else if`
IsLowAttendanceAlsoWhenEmpty(session) ==
    LET attendance == Or(session.checkedInCount, N(0))
        capacity == Or(session.capacity, N(0))
    IN  Gt(capacity, N(0)) /\ Lt(Div(attendance, capacity), LowThreshold)

\* else if (capacity > 0 && (attendance / capacity) < 0.5)
IsLowAttendance(session) ==
    LET attendance == Or(session.checkedInCount, N(0))
        capacity == Or(session.capacity, N(0))
    IN  /\ ~IsEmptySession(session)
        /\ Gt(capacity, N(0)) /\ Lt(Div(attendance, capacity), LowThreshold)

\* mutant of IsFullSession: full only when the ratio is above nine tenths
IsFullSessionAboveThreshold(session) ==
    LET attendance == Or(session.checkedInCount, N(0))
        capacity == Or(session.capacity, N(0))
    IN  /\ ~IsEmptySession(session)
        /\ ~IsLowAttendance(session)
        /\ Gt(capacity, N(0)) /\ Gt(Div(attendance, capacity), FullThreshold)

\* else if (capacity > 0 && (attendance / capacity) >= 0.9)
IsFullSession(session) ==
    LET attendance == Or(session.checkedInCount, N(0))
        capacity == Or(session.capacity, N(0))
    IN  /\ ~IsEmptySession(session)
        /\ ~IsLowAttendance(session)
        /\ Gt(capacity, N(0)) /\ Ge(Div(attendance, capacity), FullThreshold)

\* mutant of UtilizationStat: efficiency is taken over the sessions that are not empty
UtilizationStatEfficiencyOfHeld(items, itemKeys, name) ==
    LET sessions == Members(itemKeys, name)
        totalSessions == Len(sessions)
        totalCapacity == SumOf(PickOrZero(items, sessions, "capacity"))
        totalAttendance == SumOf(PickOrZero(items, sessions, "checkedInCount"))
        emptySessions == Len(SelectSeq(sessions, LAMBDA i : IsEmptySession(items[i])))
        fullSessions == Len(SelectSeq(sessions, LAMBDA i : IsFullSession(items[i])))
        formats == {Or(items[sessions[p]].cleanedClass, items[sessions[p]].classType) :
                       p \in 1..Len(sessions)}
    IN  [name |-> name,
         totalSessions |-> totalSessions,
         totalCapacity |-> totalCapacity,
         totalAttendance |-> totalAttendance,
         emptySessions |-> emptySessions,
         lowAttendanceSessions |->
             Len(SelectSeq(sessions, LAMBDA i : IsLowAttendance(items[i]))),
         fullSessions |-> fullSessions,
         formats |-> formats,
         formatCount |-> Cardinality(formats),
         fillRate |-> IF Gt(totalCapacity, N(0))
                      THEN Mul(Div(totalAttendance, totalCapacity), N(100)) ELSE N(0),
         utilizationRate |-> IF totalSessions > 0
                             THEN Mul(Div(N(totalSessions - emptySessions), N(totalSessions)),
                                      N(100))
                             ELSE N(0),
         avgAttendance |-> IF totalSessions > 0
                           THEN Div(totalAttendance, N(totalSessions)) ELSE N(0),
         efficiency |-> IF totalSessions > 0
                        THEN Mul(Div(N(fullSessions), N(totalSessions - emptySessions)), N(100))
                        ELSE N(0)]

\* the accumulator entry of one key after the reduce, with the ratios the map adds;
\* itemKeys holds the timeSlot, day or trainer of each session and `name` is the
\* one of this entry
UtilizationStat(items, itemKeys, name) ==
    LET sessions == Members(itemKeys, name)
        totalSessions == Len(sessions)
        totalCapacity == SumOf(PickOrZero(items, sessions, "capacity"))
        totalAttendance == SumOf(PickOrZero(items, sessions, "checkedInCount"))
        emptySessions == Len(SelectSeq(sessions, LAMBDA i : IsEmptySession(items[i])))
        fullSessions == Len(SelectSeq(sessions, LAMBDA i : IsFullSession(items[i])))
        formats == {Or(items[sessions[p]].cleanedClass, items[sessions[p]].classType) :
                       p \in 1..Len(sessions)}
    IN  [name |-> name,
         totalSessions |-> totalSessions,
         totalCapacity |-> totalCapacity,
         totalAttendance |-> totalAttendance,
         emptySessions |-> emptySessions,
         lowAttendanceSessions |->
             Len(SelectSeq(sessions, LAMBDA i : IsLowAttendance(items[i]))),
         fullSessions |-> fullSessions,
         formats |-> formats,
         formatCount |-> Cardinality(formats),
         fillRate |-> IF Gt(totalCapacity, N(0))
                      THEN Mul(Div(totalAttendance, totalCapacity), N(100)) ELSE N(0),
         utilizationRate |-> IF totalSessions > 0
                             THEN Mul(Div(N(totalSessions - emptySessions), N(totalSessions)),
                                      N(100))
                             ELSE N(0),
         avgAttendance |-> IF totalSessions > 0
                           THEN Div(totalAttendance, N(totalSessions)) ELSE N(0),
         efficiency |-> IF totalSessions > 0
                        THEN Mul(Div(N(fullSessions), N(totalSessions)), N(100)) ELSE N(0)]

\* Object.values of the accumulator of one reduce
UtilizationStats(items, itemKeys) ==
    LET keys == GroupKeys(itemKeys)
    IN  AsArray([g \in 1..Len(keys) |-> UtilizationStat(items, itemKeys, keys[g])])

\* the strings of the model in the order localeCompare gives them
LocaleOrder == <<"06:00", "07:30", "18:00", "Unknown">>

\* a.localeCompare(b)
LocaleCompare(a, b) ==
    LET at(x) == CHOOSE i \in 1..Len(LocaleOrder) : LocaleOrder[i] = x
    IN  N(at(a) - at(b))

dayOrder == <<"Monday", "Tuesday", "Wednesday", "Thursday", "Friday", "Saturday", "Sunday">>

\* mutant of DayIndex: a day that is not in dayOrder gets the index after Sunday's
DayIndexUnknownLast(day) ==
    IF \E i \in 1..Len(dayOrder) : dayOrder[i] = day
    THEN (CHOOSE i \in 1..Len(dayOrder) : dayOrder[i] = day) - 1
    ELSE Len(dayOrder)

\* dayOrder.indexOf(day)
DayIndex(day) ==
    IF \E i \in 1..Len(dayOrder) : dayOrder[i] = day
    THEN (CHOOSE i \in 1..Len(dayOrder) : dayOrder[i] = day) - 1
    ELSE -1

TimeSlotOf(session) == StringOf(Or(session.time, Str("Unknown")))
DayOf(session) == StringOf(Or(session.dayOfWeek, Str("Unknown")))
TrainerOf(session) == StringOf(Or(session.trainerName, Str("Unknown")))

\* .sort((a, b) => a.timeSlot.localeCompare(b.timeSlot))
TimeSlotData(items) ==
    LET stats == UtilizationStats(items, AsArray([i \in 1..Len(items) |-> TimeSlotOf(items[i])]))
        I == 1..Len(stats)
    IN  StableSort(stats,
            AsArray([i \in I |-> AsArray([j \in I |-> LocaleCompare(stats[i].name, stats[j].name)])]))

\* .sort((a, b) => dayOrder.indexOf(a.day) - dayOrder.indexOf(b.day))
DayOfWeekData(items) ==
    LET stats == UtilizationStats(items, AsArray([i \in 1..Len(items) |-> DayOf(items[i])]))
    IN  StableSort(stats, ByKey(AsArray([p \in 1..Len(stats) |-> N(DayIndex(stats[p].name))])))

\* .sort((a, b) => b.totalSessions - a.totalSessions)
TrainerData(items) ==
    LET stats == UtilizationStats(items, AsArray([i \in 1..Len(items) |-> TrainerOf(items[i])]))
    IN  StableSort(stats, ByKeyDescending(Numbers(Column(stats, "totalSessions"))))

UtilizationData(d) ==
    IF IsEmptyData(d)
    THEN [timeSlot |-> <<>>, dayOfWeek |-> <<>>, trainer |-> <<>>]
    ELSE [timeSlot |-> TimeSlotData(d.items),
          dayOfWeek |-> DayOfWeekData(d.items),
          trainer |-> TrainerData(d.items)]

RenderUtilizationTable ==
    /\ widget = "utilizationTable" /\ runs < MaxRuns
    /\ rendered' = TRUE
    /\ runs' = runs + 1
    /\ previous' = aggregation
    /\ utilizationData' = UtilizationData(data)
    /\ aggregation' = Computed(utilizationData')
    /\ UNCHANGED <<widget, data, classPerformanceData, rowsWithEmpty, rowsWithoutEmpty,
                   sortedPerformance, performanceData, metrics, interaction, loader>>

-----------------------------------------------------------------------------
(* The metric cards: ClassAttendanceMetricCards *)

\* Object.entries(classPerformance).map(...).sort(...)[0]
BestClass(items) ==
    LET keys == GroupKeys(FormatsOf(items))
        rows == AsArray([g \in 1..Len(keys) |->
                    LET sessions == Members(FormatsOf(items), keys[g])
                        totalAttendance ==
                            SumOf(PickOrZero(items, sessions, "checkedInCount"))
                    IN  [name |-> keys[g],
                         avgAttendance |-> Div(totalAttendance, N(Len(sessions)))]])
    IN  StableSort(rows, ByKeyDescending(Column(rows, "avgAttendance")))[1]

\* mutant of Metrics: the guard is only `!data`, so an empty array is aggregated
MetricsOfEmptyArray(d) ==
    IF d.k = "undefined" THEN Null
    ELSE LET items == d.items
             all == AsArray([i \in 1..Len(items) |-> i])
             totalSessions == Len(items)
             totalAttendance == SumOf(PickOrZero(items, all, "checkedInCount"))
             totalCapacity == SumOf(PickOrZero(items, all, "capacity"))
             totalRevenue == SumOf(Revenues(items, all))
         IN  [totalSessions |-> totalSessions,
              totalAttendance |-> totalAttendance,
              avgAttendance |-> IF totalSessions > 0
                                THEN Div(totalAttendance, N(totalSessions)) ELSE N(0),
              fillRate |-> IF Gt(totalCapacity, N(0))
                           THEN Mul(Div(totalAttendance, totalCapacity), N(100)) ELSE N(0),
              avgRevenue |-> IF totalSessions > 0
                             THEN Div(totalRevenue, N(totalSessions)) ELSE N(0),
              uniqueClasses |->
                  Cardinality({v \in {Or(items[i].cleanedClass, items[i].classType) :
                                         i \in 1..Len(items)} : Truthy(v)}),
              uniqueTrainers |->
                  Cardinality({v \in {items[i].trainerName : i \in 1..Len(items)} : Truthy(v)}),
              bestClass |-> IF Len(items) = 0 THEN Undefined ELSE BestClass(items)]

\* the useMemo callback of the metric cards: null for no data, else the metrics
Metrics(d) ==
    IF IsEmptyData(d) THEN Null
    ELSE LET items == d.items
             all == AsArray([i \in 1..Len(items) |-> i])
             totalSessions == Len(items)
             totalAttendance == SumOf(PickOrZero(items, all, "checkedInCount"))
             totalCapacity == SumOf(PickOrZero(items, all, "capacity"))
             totalRevenue == SumOf(Revenues(items, all))
         IN  [totalSessions |-> totalSessions,
              totalAttendance |-> totalAttendance,
              avgAttendance |-> IF totalSessions > 0
                                THEN Div(totalAttendance, N(totalSessions)) ELSE N(0),
              fillRate |-> IF Gt(totalCapacity, N(0))
                           THEN Mul(Div(totalAttendance, totalCapacity), N(100)) ELSE N(0),
              avgRevenue |-> IF totalSessions > 0
                             THEN Div(totalRevenue, N(totalSessions)) ELSE N(0),
              uniqueClasses |->
                  Cardinality({v \in {Or(items[i].cleanedClass, items[i].classType) :
                                         i \in 1..Len(items)} : Truthy(v)}),
              uniqueTrainers |->
                  Cardinality({v \in {items[i].trainerName : i \in 1..Len(items)} : Truthy(v)}),
              bestClass |-> BestClass(items)]

RenderMetricCards ==
    /\ widget = "metricCards" /\ runs < MaxRuns
    /\ rendered' = TRUE
    /\ runs' = runs + 1
    /\ previous' = aggregation
    /\ metrics' = Metrics(data)
    /\ aggregation' = Computed(metrics')
    /\ UNCHANGED <<widget, data, classPerformanceData, rowsWithEmpty, rowsWithoutEmpty,
                   sortedPerformance, performanceData, utilizationData, interaction, loader>>

-----------------------------------------------------------------------------
(* Inputs, initial states and specifications *)

\* well-formed records: every count is a non-negative integer; a shape is
\* <<checkedInCount, capacity, bookedCount, lateCancelledCount, totalPaid>>
CoreShapes == {<<0, 10, 0, 0, 0>>, <<3, 0, 3, 0, 18>>, <<5, 10, 6, 1, 30>>, <<10, 10, 10, 0, 60>>}

CoreSessions ==
    {[BaseSession EXCEPT !.cleanedClass = Str(c), !.checkedInCount = N(sh[1]),
                         !.capacity = N(sh[2]), !.bookedCount = N(sh[3]),
                         !.lateCancelledCount = N(sh[4]), !.totalPaid = N(sh[5])] :
        c \in {"HIIT", "Barre", "Yoga"}, sh \in CoreShapes}

\* records whose checkedInCount or capacity may be missing
MissingSessions ==
    {[BaseSession EXCEPT !.cleanedClass = Str(c), !.checkedInCount = n, !.capacity = cap] :
        c \in {"HIIT", "Barre"}, n \in {Undefined, N(0), N(5)}, cap \in {Undefined, N(10)}}

\* records whose class label fields may be missing or empty
LabelSessions ==
    {[BaseSession EXCEPT !.cleanedClass = c, !.classType = t, !.sessionName = n] :
        c \in {Undefined, Str(""), Str("HIIT")}, t \in {Undefined, Str("Barre")},
        n \in {Undefined, Str("Morning Flow")}}

\* records whose revenue or totalPaid may be missing
RevenueSessions ==
    {[BaseSession EXCEPT !.cleanedClass = Str(c), !.revenue = r, !.totalPaid = t] :
        c \in {"HIIT", "Barre"}, r \in {Undefined, N(0), N(50)}, t \in {Undefined, N(30)}}

\* records of two classes with different dates, with and without check-ins
DateSessions ==
    {[BaseSession EXCEPT !.cleanedClass = Str(c), !.date = Str(Dates[d]),
                         !.checkedInCount = N(n)] :
        c \in {"HIIT", "Barre"}, d \in 1..Len(Dates), n \in {0, 5}}

\* records of one class whose uniqueId is absent, an integer-like string or
\* another string
KeySessions ==
    {[BaseSession EXCEPT !.uniqueId = u, !.checkedInCount = N(n)] :
        u \in {Undefined, Str("10"), Str("2"), Str("b7")}, n \in {0, 5, 10}}

\* records whose dayOfWeek is absent, a weekday name or another string
DaySessions ==
    {[BaseSession EXCEPT !.dayOfWeek = d, !.checkedInCount = N(n)] :
        d \in {Undefined, Str("Funday"), Str("Monday"), Str("Tuesday"), Str("Wednesday"),
                Str("Sunday")},
        n \in {0, 5}}

\* records of two trainers, each with a time slot and a day of their own, that are
\* empty, below half of the capacity, between half and nine tenths, at nine tenths,
\* above the capacity, or attended in a room of capacity 0; a shape is
\* <<checkedInCount, capacity>>
FillShapes == {<<0, 10>>, <<4, 10>>, <<8, 10>>, <<9, 10>>, <<12, 10>>, <<4, 0>>}

FillSessions ==
    {[BaseSession EXCEPT !.trainerName = Str(who[1]), !.time = Str(who[2]),
                         !.dayOfWeek = Str(who[3]),
                         !.checkedInCount = N(sh[1]), !.capacity = N(sh[2])] :
        who \in {<<"Ana", "07:30", "Monday">>, <<"Bea", "18:00", "Tuesday">>},
        sh \in FillShapes}

\* records whose class label is absent, a name or a string of digits
ClassKeySessions ==
    {[BaseSession EXCEPT !.cleanedClass = c, !.checkedInCount = N(n)] :
        c \in {Undefined, Str("10"), Str("2"), Str("Barre")}, n \in {0, 5, 10}}

\* the values of the `data` prop: undefined, or an array of at most MaxLen records
Inputs(sessions) ==
    {NoData} \cup {ArrayData(items) : items \in UNION {[1..n -> sessions] : n \in 0..MaxLen}}

\* the widgets that compute their aggregates from the records of the specification
Aggregators == {"rankingTables", "rankingTable", "performanceTable", "utilizationTable", "metricCards"}

Widgets == Aggregators \cup {"expandableTables", "loadingProvider"}

\* a widget is mounted with its prop and has not rendered yet; the loading provider
\* has no `data` prop
Mounted(sessions) ==
    /\ widget \in Widgets
    /\ data \in (CASE widget = "expandableTables" -> ShownInputs
                  [] widget = "rankingTables" -> Inputs(sessions) \cup ShownInputs
                  [] widget = "loadingProvider" -> {NoData}
                  [] OTHER -> Inputs(sessions))
    /\ localStorage \in (IF widget \in {"rankingTables", "expandableTables"} /\ data \in ShownInputs
                          THEN Stores ELSE {[key \in StorageKeys |-> Null]})
    /\ events = 0
    /\ expandedRows = {}
    /\ editingSummary = [withEmpty |-> FALSE, withoutEmpty |-> FALSE]
    /\ summaryWithEmpty = Undefined
    /\ summaryWithoutEmpty = Undefined
    /\ event = NoEvent
    /\ isLoading = FALSE
    /\ loadingTitle = DefaultTitle
    /\ loadingSubtitle = DefaultSubtitle
    /\ overlay = NothingDrawn
    /\ queued = <<>>
    /\ calls = <<>>
    /\ rendered = FALSE
    /\ runs = 0
    /\ aggregation = NotComputed
    /\ previous = NotComputed
    /\ classPerformanceData = <<>>
    /\ rowsWithEmpty = <<>>
    /\ rowsWithoutEmpty = <<>>
    /\ sortedPerformance = <<>>
    /\ performanceData = <<>>
    /\ utilizationData = [timeSlot |-> <<>>, dayOfWeek |-> <<>>, trainer |-> <<>>]
    /\ metrics = Null

Init == Mounted(CoreSessions)
InitMissing == Mounted(MissingSessions)
InitLabel == Mounted(LabelSessions)
InitRevenue == Mounted(RevenueSessions)
InitDates == Mounted(DateSessions)
InitKeys == Mounted(KeySessions)
InitDays == Mounted(DaySessions)
InitFill == Mounted(FillSessions)
InitClassKeys == Mounted(ClassKeySessions)

Next ==
    \/ RenderRankingTables
    \/ RenderRankingTable
    \/ RenderPerformanceTable
    \/ RenderUtilizationTable
    \/ RenderMetricCards
    \/ RenderExpandableTables
    \/ \E uniqueId \in {classPerformanceData[p].uniqueId : p \in 1..Len(classPerformanceData)} :
          toggleRowExpansion(uniqueId)
    \/ \E section \in Sections : ClickSectionButton(section)
    \/ \E section \in Sections : ClickSaveChanges(section)
    \/ \E section \in Sections : ClickCancel(section)
    \/ \E section \in Sections, text \in TypedTexts, accepted \in BOOLEAN :
          ChangeSummary(section, text, accepted)
    \/ \E loading \in BOOLEAN, title \in TitleArguments, subtitle \in SubtitleArguments :
          setLoading(loading, title, subtitle)
    \/ RenderLoadingProvider

Spec == Init /\ [][Next]_vars
SpecMissing == InitMissing /\ [][Next]_vars
SpecLabel == InitLabel /\ [][Next]_vars
SpecRevenue == InitRevenue /\ [][Next]_vars
SpecDates == InitDates /\ [][Next]_vars
SpecKeys == InitKeys /\ [][Next]_vars
SpecDays == InitDays /\ [][Next]_vars
SpecFill == InitFill /\ [][Next]_vars
SpecClassKeys == InitClassKeys /\ [][Next]_vars

-----------------------------------------------------------------------------
(* Vocabulary of the properties *)

Done(w) == widget = w /\ rendered

HasRows == data.k = "array" /\ Len(data.items) > 0

Rows(seq) == {seq[p] : p \in 1..Len(seq)}

Finite(v) == v.k = "number"

\* the integer a well-formed count holds
IntOf(v) == v.n

RECURSIVE SumInts(_)
SumInts(ints) == IF Len(ints) = 0 THEN 0 ELSE ints[1] + SumInts(Tail(ints))

\* the sum of an integer field over the sessions at `indices` (a sequence)
Total(indices, field) ==
    SumInts(AsArray([p \in 1..Len(indices) |-> IntOf(data.items[indices[p]][field])]))

\* the sessions of a two-table row that have check-ins
NonEmptyOf(row) == SelectSeq(row.individualSessions, LAMBDA i : IntOf(data.items[i].checkedInCount) > 0)

\* v is the number num / den (den > 0)
IsRatio(v, num, den) == Finite(v) /\ v.n * den = num * v.d

Zero == N(0)

-----------------------------------------------------------------------------
(* C1..C10 *)

\* C1 (as claimed): with non-negative integer counts, every ratio metric of every
\* group summary of every widget is a finite number, and is 0 whenever its
\* denominator is 0.
C1_RatiosFiniteAndZeroOnZeroDenominator ==
    /\ Done("rankingTables") =>
         \A r \in Rows(classPerformanceData) :
            /\ Finite(r.avgCheckIns) /\ Finite(r.avgCheckInsWithoutEmpty)
            /\ Finite(r.fillPercentage) /\ Finite(r.fillPercentageWithoutEmpty)
            /\ Finite(r.avgRevenue)
            /\ (Len(NonEmptyOf(r)) = 0 => r.avgCheckInsWithoutEmpty = Zero)
            /\ (Total(r.individualSessions, "capacity") = 0 => r.fillPercentage = Zero)
            /\ (Total(NonEmptyOf(r), "capacity") = 0 =>
                    r.fillPercentageWithoutEmpty = Zero)
    /\ Done("rankingTable") =>
         \A r \in Rows(sortedPerformance) : Finite(r.avgCheckIns) /\ Finite(r.fillPercentage)
    /\ Done("performanceTable") =>
         \A r \in Rows(performanceData) :
            /\ Finite(r.fillRate) /\ Finite(r.showUpRate) /\ Finite(r.utilizationRate)
            /\ Finite(r.avgRevenue) /\ Finite(r.revenuePerAttendee) /\ Finite(r.cancellationRate)
            /\ (r.totalCapacity = Zero => r.fillRate = Zero)
            /\ (r.totalBooked = Zero => r.showUpRate = Zero /\ r.cancellationRate = Zero)
            /\ (r.totalCheckedIn = Zero => r.revenuePerAttendee = Zero)
    /\ Done("utilizationTable") =>
         \A r \in Rows(utilizationData.timeSlot) \cup Rows(utilizationData.dayOfWeek)
                  \cup Rows(utilizationData.trainer) :
            /\ Finite(r.fillRate) /\ Finite(r.utilizationRate)
            /\ Finite(r.avgAttendance) /\ Finite(r.efficiency)
            /\ (r.totalCapacity = Zero => r.fillRate = Zero)
    /\ (Done("metricCards") /\ metrics # Null) =>
         /\ Finite(metrics.avgAttendance) /\ Finite(metrics.fillRate)
         /\ Finite(metrics.avgRevenue)

\* C2 (as claimed): in the two-table widget fillPercentageWithoutEmpty is
\* totalCheckIns / (capacity of the sessions with check-ins) * 100, and 0 when the
\* group has no session with check-ins or when that capacity is 0.
C2_FillPercentageWithoutEmpty ==
    Done("rankingTables") =>
        \A r \in Rows(classPerformanceData) :
            LET capacity == Total(NonEmptyOf(r), "capacity")
                checkIns == Total(r.individualSessions, "checkedInCount")
            IN  IF Len(NonEmptyOf(r)) = 0 \/ capacity = 0
                THEN r.fillPercentageWithoutEmpty = Zero
                ELSE IsRatio(r.fillPercentageWithoutEmpty, 100 * checkIns, capacity)

\* the sum of a count field of the rows of a widget
SumOfCounts(rows, field) == SumInts(Column(rows, field))

\* C3: grouping is a partition of the input: for a non-empty input the
\* sessionCount (totalSessions) of the groups of every widget add up to the length
\* of the input, and in the two-table widget every session is a member of
\* exactly one group, once.
C3_GroupingIsPartition ==
    HasRows =>
        /\ Done("rankingTables") =>
             /\ SumOfCounts(classPerformanceData, "sessionCount") = Len(data.items)
             /\ \A r \in Rows(classPerformanceData) : Len(r.individualSessions) = r.sessionCount
             /\ \A i \in 1..Len(data.items) :
                    Cardinality({p \in 1..Len(classPerformanceData) :
                                    i \in Rows(classPerformanceData[p].individualSessions)}) = 1
        /\ Done("rankingTable") =>
             SumOfCounts(sortedPerformance, "sessionCount") = Len(data.items)
        /\ Done("performanceTable") =>
             SumOfCounts(performanceData, "totalSessions") = Len(data.items)
        /\ Done("utilizationTable") =>
             /\ SumOfCounts(utilizationData.timeSlot, "totalSessions") = Len(data.items)
             /\ SumOfCounts(utilizationData.dayOfWeek, "totalSessions") = Len(data.items)
             /\ SumOfCounts(utilizationData.trainer, "totalSessions") = Len(data.items)

\* C3 witness: three sessions were split into two groups, one of them with two sessions
C3_Witness ==
    /\ Done("rankingTables") /\ HasRows /\ Len(data.items) = 3
    /\ Len(classPerformanceData) = 2
    /\ \E r \in Rows(classPerformanceData) : r.sessionCount = 2

\* the number of distinct group keys of the input of the two-table widget
GroupCount == IF HasRows THEN Cardinality({GroupKey(data.items[i]) : i \in 1..Len(data.items)}) ELSE 0

\* C4: after the aggregation of N groups the rank values are exactly 1..N, without
\* duplicate or gap, and so are the rankWithoutEmpty values.
C4_RanksAreOneToN ==
    Done("rankingTables") =>
        /\ Len(classPerformanceData) = GroupCount
        /\ {r.rank : r \in Rows(classPerformanceData)} = 1..GroupCount
        /\ {r.rankWithoutEmpty : r \in Rows(classPerformanceData)} = 1..GroupCount
        /\ Cardinality(Rows(classPerformanceData)) = GroupCount

\* C4 witness: three groups, two of which tie on both averages, have the ranks
\* 1, 2, 3 and the rankWithoutEmpty values 1, 2, 3
C4_Witness ==
    /\ Done("rankingTables") /\ Len(classPerformanceData) = 3
    /\ \E a, b \in Rows(classPerformanceData) :
          /\ a.uniqueId # b.uniqueId
          /\ a.avgCheckIns = b.avgCheckIns
          /\ a.avgCheckInsWithoutEmpty = b.avgCheckInsWithoutEmpty
    /\ {r.rank : r \in Rows(classPerformanceData)} = {1, 2, 3}
    /\ {r.rankWithoutEmpty : r \in Rows(classPerformanceData)} = {1, 2, 3}

\* C5: ranks follow the metric in descending order: a greater avgCheckIns has a
\* smaller rank, a greater avgCheckInsWithoutEmpty a smaller rankWithoutEmpty, and
\* in the single-table widget a greater avgCheckIns is displayed in an earlier row.
C5_RanksFollowMetricDescending ==
    /\ Done("rankingTables") =>
         \A a, b \in Rows(classPerformanceData) :
            /\ Gt(a.avgCheckIns, b.avgCheckIns) => a.rank < b.rank
            /\ Gt(a.avgCheckInsWithoutEmpty, b.avgCheckInsWithoutEmpty) =>
                   a.rankWithoutEmpty < b.rankWithoutEmpty
    /\ Done("rankingTable") =>
         \A i, j \in 1..Len(sortedPerformance) :
            Gt(sortedPerformance[i].avgCheckIns, sortedPerformance[j].avgCheckIns) => i < j

\* C5 witness: of three groups with three different averages the one met last in
\* the input has the greatest average and rank 1, and the one met first the rank 3
C5_Witness ==
    /\ Done("rankingTables") /\ Len(classPerformanceData) = 3
    /\ \E a, b, c \in Rows(classPerformanceData) :
          /\ a.individualSessions[1] = 3 /\ b.individualSessions[1] = 2
          /\ c.individualSessions[1] = 1
          /\ Gt(a.avgCheckIns, b.avgCheckIns) /\ Gt(b.avgCheckIns, c.avgCheckIns)
          /\ a.rank = 1 /\ b.rank = 2 /\ c.rank = 3
          /\ a.rankWithoutEmpty = 1 /\ b.rankWithoutEmpty = 2 /\ c.rankWithoutEmpty = 3

\* the integer a count field holds, 0 when the field is absent
CountOrZero(v) == IF v.k = "number" THEN v.n ELSE 0

\* the sum of a count field over the sessions at `indices`, absent fields counted as 0
TotalOrZero(indices, field) ==
    SumInts(AsArray([p \in 1..Len(indices) |-> CountOrZero(data.items[indices[p]][field])]))

\* the sessions at `indices` whose checkedInCount is 0 or absent
EmptyOf(indices) == SelectSeq(indices, LAMBDA i : CountOrZero(data.items[i].checkedInCount) = 0)

\* the indices of the sessions whose cleanedClass is `name`
SessionsOfClass(name) == Ascending({i \in 1..Len(data.items) : data.items[i].cleanedClass = Str(name)})

AllSessions == AsArray([i \in 1..Len(data.items) |-> i])

\* v is 100 * num / den, or 0 when den is 0
IsPercentage(v, num, den) == IF den > 0 THEN IsRatio(v, 100 * num, den) ELSE v = Zero

\* C6 (as claimed): a record whose checkedInCount or capacity is absent is
\* aggregated by every widget as if the field were 0: the sums, the counts of empty
\* and non-empty sessions, the averages and the fill percentages are those of the
\* input with 0 in place of the absent field.
C6_MissingNumericFieldsDefaultToZero ==
    /\ Done("rankingTables") =>
         \A r \in Rows(classPerformanceData) :
            LET checkIns == TotalOrZero(r.individualSessions, "checkedInCount")
                capacity == TotalOrZero(r.individualSessions, "capacity")
                empty == Len(EmptyOf(r.individualSessions))
            IN  /\ r.totalCheckIns = N(checkIns)
                /\ r.emptySessions = empty
                /\ r.sessionsWithCheckIns = r.sessionCount - empty
                /\ IsRatio(r.avgCheckIns, checkIns, r.sessionCount)
                /\ IsPercentage(r.fillPercentage, checkIns, capacity)
    /\ Done("rankingTable") =>
         \A r \in Rows(sortedPerformance) :
            LET sessions == SessionsOfClass(r.className)
                checkIns == TotalOrZero(sessions, "checkedInCount")
            IN  /\ r.totalCheckIns = N(checkIns)
                /\ IsRatio(r.avgCheckIns, checkIns, r.sessionCount)
                /\ IsPercentage(r.fillPercentage, checkIns, TotalOrZero(sessions, "capacity"))
    /\ Done("performanceTable") =>
         \A r \in Rows(performanceData) :
            LET sessions == SessionsOfClass(r.format)
                checkIns == TotalOrZero(sessions, "checkedInCount")
                capacity == TotalOrZero(sessions, "capacity")
            IN  /\ r.totalCheckedIn = N(checkIns)
                /\ r.totalCapacity = N(capacity)
                /\ r.emptySessions = Len(EmptyOf(sessions))
                /\ IsPercentage(r.fillRate, checkIns, capacity)
    /\ (Done("utilizationTable") /\ HasRows) =>
         \A r \in Rows(utilizationData.timeSlot) \cup Rows(utilizationData.dayOfWeek)
                  \cup Rows(utilizationData.trainer) :
            LET checkIns == TotalOrZero(AllSessions, "checkedInCount")
                capacity == TotalOrZero(AllSessions, "capacity")
            IN  /\ r.totalAttendance = N(checkIns)
                /\ r.totalCapacity = N(capacity)
                /\ r.emptySessions = Len(EmptyOf(AllSessions))
                /\ IsPercentage(r.fillRate, checkIns, capacity)
    /\ (Done("metricCards") /\ HasRows) =>
         LET checkIns == TotalOrZero(AllSessions, "checkedInCount")
         IN  /\ metrics.totalAttendance = N(checkIns)
             /\ IsRatio(metrics.avgAttendance, checkIns, Len(data.items))
             /\ IsPercentage(metrics.fillRate, checkIns, TotalOrZero(AllSessions, "capacity"))

\* the first non-empty of cleanedClass, classType and sessionName, else "Unknown Class"
LabelOf(session) ==
    IF session.cleanedClass.k = "string" /\ session.cleanedClass.s # "" THEN session.cleanedClass.s
    ELSE IF session.classType.k = "string" /\ session.classType.s # "" THEN session.classType.s
    ELSE IF session.sessionName.k = "string" /\ session.sessionName.s # "" THEN session.sessionName.s
    ELSE "Unknown Class"

\* the labels of the sessions of the input
Labels == {LabelOf(data.items[i]) : i \in 1..Len(data.items)}

\* C7 (as claimed): in every class-keyed widget the label under which a session is
\* grouped and shown is the first non-empty of cleanedClass, classType and
\* sessionName, and "Unknown Class" only when all three are absent: the rows of a
\* widget carry exactly the labels of the sessions, each with the number of
\* sessions of that label.
C7_ClassLabelFallbackChain ==
    HasRows =>
        /\ Done("rankingTables") =>
             \A r \in Rows(classPerformanceData) :
                \A p \in 1..Len(r.individualSessions) :
                    r.className = LabelOf(data.items[r.individualSessions[p]])
        /\ Done("rankingTable") =>
             /\ {r.className : r \in Rows(sortedPerformance)} = Labels
             /\ \A r \in Rows(sortedPerformance) :
                    r.sessionCount =
                        Cardinality({i \in 1..Len(data.items) : LabelOf(data.items[i]) = r.className})
        /\ Done("performanceTable") =>
             /\ {r.format : r \in Rows(performanceData)} = Labels
             /\ \A r \in Rows(performanceData) :
                    r.totalSessions =
                        Cardinality({i \in 1..Len(data.items) : LabelOf(data.items[i]) = r.format})
        /\ Done("metricCards") => metrics.bestClass.name \in Labels

\* the revenue of a session: revenue when it has one, otherwise totalPaid, otherwise
\* 0 (a revenue of 0 counts as none, as the chain revenue || totalPaid || 0 has it)
RevenueOf(session) ==
    IF session.revenue.k = "number" /\ session.revenue.n # 0 THEN session.revenue.n
    ELSE IF session.totalPaid.k = "number" THEN session.totalPaid.n
    ELSE 0

\* the sum of the revenues of the sessions at `indices`
RevenueTotal(indices) ==
    SumInts(AsArray([p \in 1..Len(indices) |-> RevenueOf(data.items[indices[p]])]))

\* C8 (as claimed): in every widget the totalRevenue of a group is the sum over its
\* sessions of revenue when present, otherwise totalPaid, otherwise 0 (in the metric
\* cards, whose only revenue figure is avgRevenue, that sum over all the sessions
\* divided by their number).
C8_RevenueFallbackChain ==
    /\ Done("rankingTables") =>
         \A r \in Rows(classPerformanceData) :
            r.totalRevenue = N(RevenueTotal(r.individualSessions))
    /\ Done("rankingTable") =>
         \A r \in Rows(sortedPerformance) :
            r.totalRevenue = N(RevenueTotal(SessionsOfClass(r.className)))
    /\ Done("performanceTable") =>
         \A r \in Rows(performanceData) :
            r.totalRevenue = N(RevenueTotal(SessionsOfClass(r.format)))
    /\ (Done("metricCards") /\ HasRows) =>
         IsRatio(metrics.avgRevenue, RevenueTotal(AllSessions), Len(data.items))

\* C9: an empty or absent input is not an error: after a render with no data the
\* two-table widget has an empty summary list and draws no row, the single-table
\* and performance widgets have empty lists, the utilization widget has empty
\* timeSlot, dayOfWeek and trainer lists, and the metric cards have no metrics.
C9_EmptyInputGivesEmptyResult ==
    (rendered /\ (data.k = "undefined" \/ Len(data.items) = 0)) =>
        /\ classPerformanceData = <<>> /\ rowsWithEmpty = <<>> /\ rowsWithoutEmpty = <<>>
        /\ sortedPerformance = <<>>
        /\ performanceData = <<>>
        /\ utilizationData = [timeSlot |-> <<>>, dayOfWeek |-> <<>>, trainer |-> <<>>]
        /\ metrics = Null

\* C9 witness: the metric cards have rendered an empty array and hold no metrics
C9_Witness ==
    /\ Done("metricCards") /\ data.k = "array" /\ Len(data.items) = 0
    /\ metrics = Null

\* C10: for every group of the ranking widgets fillPercentage is
\* totalCheckIns / totalCapacity * 100 when the group's totalCapacity is positive,
\* it is never negative, and it is exactly 0 when the totalCapacity is 0.
C10_FillPercentage ==
    /\ Done("rankingTables") =>
         \A r \in Rows(classPerformanceData) :
            /\ IsPercentage(r.fillPercentage, Total(r.individualSessions, "checkedInCount"),
                            Total(r.individualSessions, "capacity"))
            /\ Finite(r.fillPercentage) /\ r.fillPercentage.n >= 0
    /\ Done("rankingTable") =>
         \A r \in Rows(sortedPerformance) :
            /\ IsPercentage(r.fillPercentage,
                            Total(SessionsOfClass(r.className), "checkedInCount"),
                            Total(SessionsOfClass(r.className), "capacity"))
            /\ Finite(r.fillPercentage) /\ r.fillPercentage.n >= 0

\* C10 witness: a group whose only session has capacity 0 and checkedInCount 3 has
\* the fillPercentage 0
C10_Witness ==
    /\ Done("rankingTables") /\ HasRows /\ Len(data.items) = 1
    /\ data.items[1].capacity = N(0) /\ data.items[1].checkedInCount = N(3)
    /\ Len(classPerformanceData) = 1
    /\ classPerformanceData[1].fillPercentage = Zero

-----------------------------------------------------------------------------
(* C11..C20 *)

\* C11: for every group of the two-table widget avgCheckInsWithoutEmpty is
\* totalCheckIns divided by the number of the group's sessions with
\* checkedInCount > 0, and 0 when the group has no such session; avgCheckIns is
\* totalCheckIns divided by sessionCount, in the single-table widget too.
C11_AverageCheckIns ==
    /\ Done("rankingTables") =>
         \A r \in Rows(classPerformanceData) :
            LET checkIns == Total(r.individualSessions, "checkedInCount")
                nonEmpty == Len(NonEmptyOf(r))
            IN  /\ r.totalCheckIns = N(checkIns)
                /\ r.sessionCount = Len(r.individualSessions)
                /\ IsRatio(r.avgCheckIns, checkIns, r.sessionCount)
                /\ IF nonEmpty = 0
                   THEN r.avgCheckInsWithoutEmpty = Zero
                   ELSE IsRatio(r.avgCheckInsWithoutEmpty, checkIns, nonEmpty)
    /\ Done("rankingTable") =>
         \A r \in Rows(sortedPerformance) :
            /\ r.totalCheckIns = N(Total(SessionsOfClass(r.className), "checkedInCount"))
            /\ r.sessionCount = Len(SessionsOfClass(r.className))
            /\ IsRatio(r.avgCheckIns, r.totalCheckIns.n, r.sessionCount)

\* C11 witness: the sessions of one class have the check-ins 0, 5 and 10 in some
\* order: avgCheckIns is 5 and avgCheckInsWithoutEmpty is 7.5
C11_Witness ==
    /\ Done("rankingTables") /\ Len(classPerformanceData) = 1
    /\ classPerformanceData[1].sessionCount = 3
    /\ classPerformanceData[1].emptySessions = 1
    /\ classPerformanceData[1].totalCheckIns = N(15)
    /\ classPerformanceData[1].avgCheckIns = N(5)
    /\ classPerformanceData[1].avgCheckInsWithoutEmpty = Frac(15, 2)

\* the position of a session's date in the calendar
DateRank(session) == CHOOSE d \in 1..Len(Dates) : Str(Dates[d]) = session.date

\* C12: no aggregation mutates its input: every step of every widget leaves the
\* `data` array with the same records in the same order and with the same fields.
C12_InputNotMutated == [][data' = data]_vars

\* C12 witness: the two-table widget has aggregated two sessions of one class given
\* in ascending date order: the group's individualSessions are in descending date
\* order and the input is still in ascending date order
C12_Witness ==
    /\ Done("rankingTables") /\ HasRows /\ Len(data.items) = 2
    /\ DateRank(data.items[1]) < DateRank(data.items[2])
    /\ Len(classPerformanceData) = 1
    /\ classPerformanceData[1].individualSessions = <<2, 1>>

\* the summaries the two-table widget's aggregation returned, in the order returned
Returned == IF aggregation = NotComputed THEN <<>> ELSE aggregation.v

\* the summary at position q of the returned sequence comes before the one at
\* position p when the sequence is sorted by `field`, descending, a tie leaving
\* the earlier position first
Precedes(q, p, field) ==
    \/ Gt(Returned[q][field], Returned[p][field])
    \/ (Returned[q][field] = Returned[p][field] /\ q < p)

\* C14: the two ranking passes are independent: in the sequence the aggregation
\* returns, the rank of a summary is its position by avgCheckIns alone and its
\* rankWithoutEmpty its position by avgCheckInsWithoutEmpty alone, the summary at
\* each position is the one of the group the grouping produced at that position,
\* and no field but the two ranks differs from what it had before the passes.
C14_RankingPassesIndependent ==
    (widget = "rankingTables" /\ rendered /\ HasRows) =>
        LET P == 1..Len(Returned)
            groups == GroupedData(data.items)
        IN  /\ Len(Returned) = Len(groups)
            /\ \A p \in P :
                /\ Returned[p].rank =
                       1 + Cardinality({q \in P : q # p /\ Precedes(q, p, "avgCheckIns")})
                /\ Returned[p].rankWithoutEmpty =
                       1 + Cardinality({q \in P : q # p /\ Precedes(q, p, "avgCheckInsWithoutEmpty")})
                /\ [Returned[p] EXCEPT !.rank = 0, !.rankWithoutEmpty = 0] =
                       Summary(data.items, groups[p], Returned[p].individualSessions)

\* C14 witness: the class met first has the greater avgCheckIns and the class met
\* second the greater avgCheckInsWithoutEmpty: the two ranks disagree and the
\* returned sequence is in grouping order
C14_Witness ==
    /\ widget = "rankingTables" /\ rendered /\ Len(Returned) = 2
    /\ Gt(Returned[1].avgCheckIns, Returned[2].avgCheckIns)
    /\ Gt(Returned[2].avgCheckInsWithoutEmpty, Returned[1].avgCheckInsWithoutEmpty)
    /\ Returned[1].rank = 1 /\ Returned[2].rank = 2
    /\ Returned[1].rankWithoutEmpty = 2 /\ Returned[2].rankWithoutEmpty = 1

\* the input position of the first session of a summary's group
FirstSession(row) ==
    CHOOSE i \in Rows(row.individualSessions) : \A j \in Rows(row.individualSessions) : i <= j

\* C15 (as claimed): ties are broken by encounter order: of two groups with equal
\* avgCheckIns the one whose key is met first in the input has the smaller rank,
\* and of two groups with equal avgCheckInsWithoutEmpty the one met first has the
\* smaller rankWithoutEmpty.
C15_TieBreakByEncounterOrder ==
    Done("rankingTables") =>
        \A a, b \in Rows(classPerformanceData) :
            FirstSession(a) < FirstSession(b) =>
                /\ a.avgCheckIns = b.avgCheckIns => a.rank < b.rank
                /\ a.avgCheckInsWithoutEmpty = b.avgCheckInsWithoutEmpty =>
                       a.rankWithoutEmpty < b.rankWithoutEmpty

\* C16 (as claimed): grouping keeps the first-encounter order of the keys, whatever
\* the key strings are: in the sequence the two-table widget's aggregation returns,
\* a group whose key is met earlier in the input comes earlier, and with equal
\* dates the records of a group are in input order.
C16_GroupsInEncounterOrder ==
    (widget = "rankingTables" /\ rendered) =>
        /\ \A p, q \in 1..Len(Returned) :
              p < q => FirstSession(Returned[p]) < FirstSession(Returned[q])
        /\ \A p \in 1..Len(Returned) :
              \A i, j \in 1..Len(Returned[p].individualSessions) :
                  i < j => Returned[p].individualSessions[i] < Returned[p].individualSessions[j]

\* C17: in every summary the two-table widget's aggregation returns,
\* individualSessions holds exactly the source records of the group, each once,
\* ordered by date descending, records of equal date in input order.
C17_IndividualSessionsByDateDescending ==
    (widget = "rankingTables" /\ rendered) =>
        \A p \in 1..Len(Returned) :
            LET sessions == Returned[p].individualSessions
                source == SessionsOfClass(Returned[p].className)
            IN  /\ Len(sessions) = Len(source)
                /\ Rows(sessions) = Rows(source)
                /\ \A i, j \in 1..Len(sessions) :
                      i < j =>
                          \/ DateRank(data.items[sessions[i]]) > DateRank(data.items[sessions[j]])
                          \/ /\ DateRank(data.items[sessions[i]]) = DateRank(data.items[sessions[j]])
                             /\ sessions[i] < sessions[j]

\* C17 witness: a group of three sessions given as an early date, a later date and
\* the early date again: the later one comes first and the two of the early date
\* follow in input order
C17_Witness ==
    /\ widget = "rankingTables" /\ rendered
    /\ \E r \in Rows(Returned) :
          /\ r.individualSessions = <<2, 1, 3>>
          /\ DateRank(data.items[2]) > DateRank(data.items[1])
          /\ DateRank(data.items[1]) = DateRank(data.items[3])

\* the sessions whose `field` (time, dayOfWeek or trainerName) is `name`, a session
\* without the field being labelled "Unknown"
SessionsWith(field, name) ==
    {i \in 1..Len(data.items) :
        IF data.items[i][field].k = "string"
        THEN data.items[i][field].s = name
        ELSE name = "Unknown"}

\* the sessions of S with capacity > 0 and checkedInCount / capacity < 0.5
LowAttendanceOf(S) ==
    {i \in S : /\ IntOf(data.items[i].capacity) > 0
               /\ 2 * IntOf(data.items[i].checkedInCount) < IntOf(data.items[i].capacity)}

\* C18 (as claimed): in the time-slot, day-of-week and trainer aggregations,
\* lowAttendanceSessions of a group is the number of its sessions with capacity > 0
\* and checkedInCount / capacity < 0.5.
C18_LowAttendanceSessions ==
    Done("utilizationTable") =>
        /\ \A r \in Rows(utilizationData.timeSlot) :
              r.lowAttendanceSessions = Cardinality(LowAttendanceOf(SessionsWith("time", r.name)))
        /\ \A r \in Rows(utilizationData.dayOfWeek) :
              r.lowAttendanceSessions = Cardinality(LowAttendanceOf(SessionsWith("dayOfWeek", r.name)))
        /\ \A r \in Rows(utilizationData.trainer) :
              r.lowAttendanceSessions = Cardinality(LowAttendanceOf(SessionsWith("trainerName", r.name)))

\* the place of a day in the week, Monday 1 to Sunday 7, and 0 for any other name
WeekdayNumber(name) ==
    CASE name = "Monday" -> 1
      [] name = "Tuesday" -> 2
      [] name = "Wednesday" -> 3
      [] name = "Thursday" -> 4
      [] name = "Friday" -> 5
      [] name = "Saturday" -> 6
      [] name = "Sunday" -> 7
      [] OTHER -> 0

\* the day label of a session: its dayOfWeek, or "Unknown" when it has none
DayLabelOf(session) == IF session.dayOfWeek.k = "string" THEN session.dayOfWeek.s ELSE "Unknown"

\* C19: the day-of-week rows, one per day label of the input, are in the order
\* Monday, Tuesday, ..., Sunday whatever the input order and the session counts,
\* and every row whose day is none of the seven names ("Unknown" included) comes
\* before all the rows of recognized days.
C19_DayOfWeekOrder ==
    (Done("utilizationTable") /\ HasRows) =>
        LET rows == utilizationData.dayOfWeek
        IN  /\ {rows[p].name : p \in 1..Len(rows)} = {DayLabelOf(session) : session \in Rows(data.items)}
            /\ \A p, q \in 1..Len(rows) :
                  p < q =>
                      /\ WeekdayNumber(rows[p].name) <= WeekdayNumber(rows[q].name)
                      /\ WeekdayNumber(rows[p].name) > 0 =>
                             WeekdayNumber(rows[p].name) < WeekdayNumber(rows[q].name)

\* C19 witness: the input gives Sunday (no check-ins), then Monday, then a session
\* without a recognized day; the rows are that day, Monday, Sunday
C19_Witness ==
    /\ Done("utilizationTable") /\ HasRows
    /\ Len(data.items) = 3 /\ Len(utilizationData.dayOfWeek) = 3
    /\ data.items[1].dayOfWeek = Str("Sunday") /\ data.items[1].checkedInCount = N(0)
    /\ data.items[2].dayOfWeek = Str("Monday") /\ data.items[2].checkedInCount = N(5)
    /\ WeekdayNumber(DayLabelOf(data.items[3])) = 0
    /\ utilizationData.dayOfWeek[1].name = DayLabelOf(data.items[3])
    /\ utilizationData.dayOfWeek[2].name = "Monday"
    /\ utilizationData.dayOfWeek[3].name = "Sunday"

\* the sessions of S whose checkedInCount is 0 or missing
WithoutCheckIns(S) == {i \in S : CountOrZero(data.items[i].checkedInCount) = 0}

\* row r of a utilization aggregation over the sessions S has the claimed
\* emptySessions and utilizationRate
EmptyAndUtilization(r, S) ==
    /\ r.totalSessions = Cardinality(S)
    /\ r.emptySessions = Cardinality(WithoutCheckIns(S))
    /\ IsRatio(r.utilizationRate, 100 * (r.totalSessions - r.emptySessions), r.totalSessions)
    /\ Ge(r.utilizationRate, N(0)) /\ Ge(N(100), r.utilizationRate)

\* C20: in the time-slot, day-of-week and trainer aggregations, emptySessions of a
\* group is the number of its sessions whose checkedInCount is 0 or missing, and
\* utilizationRate is (totalSessions - emptySessions) / totalSessions * 100, a
\* number between 0 and 100.
C20_EmptySessionsAndUtilizationRate ==
    Done("utilizationTable") =>
        /\ \A r \in Rows(utilizationData.timeSlot) :
              EmptyAndUtilization(r, SessionsWith("time", r.name))
        /\ \A r \in Rows(utilizationData.dayOfWeek) :
              EmptyAndUtilization(r, SessionsWith("dayOfWeek", r.name))
        /\ \A r \in Rows(utilizationData.trainer) :
              EmptyAndUtilization(r, SessionsWith("trainerName", r.name))

\* C20 witness: three sessions of one time slot, one without a checkedInCount, one
\* with 0 and one with 5: emptySessions is 2 and utilizationRate 100/3
C20_Witness ==
    /\ Done("utilizationTable") /\ HasRows
    /\ Len(data.items) = 3
    /\ data.items[1].checkedInCount = Undefined
    /\ data.items[2].checkedInCount = N(0)
    /\ data.items[3].checkedInCount = N(5)
    /\ Len(utilizationData.timeSlot) = 1
    /\ utilizationData.timeSlot[1].emptySessions = 2
    /\ utilizationData.timeSlot[1].utilizationRate = Frac(100, 3)
    /\ utilizationData.trainer[1].emptySessions = 2
    /\ utilizationData.dayOfWeek[1].utilizationRate = Frac(100, 3)

\* the sessions of S with capacity > 0 and checkedInCount / capacity >= 0.9
FullOf(S) ==
    {i \in S : /\ IntOf(data.items[i].capacity) > 0
               /\ 10 * IntOf(data.items[i].checkedInCount) >= 9 * IntOf(data.items[i].capacity)}

\* C21: in the time-slot, day-of-week and trainer aggregations, fullSessions of a
\* group is the number of its sessions with capacity > 0 and
\* checkedInCount / capacity >= 0.9; a session filled above its capacity is full.
C21_FullSessions ==
    Done("utilizationTable") =>
        /\ \A r \in Rows(utilizationData.timeSlot) :
              r.fullSessions = Cardinality(FullOf(SessionsWith("time", r.name)))
        /\ \A r \in Rows(utilizationData.dayOfWeek) :
              r.fullSessions = Cardinality(FullOf(SessionsWith("dayOfWeek", r.name)))
        /\ \A r \in Rows(utilizationData.trainer) :
              r.fullSessions = Cardinality(FullOf(SessionsWith("trainerName", r.name)))

\* C21 witness: one trainer has a session at nine tenths and one above the capacity,
\* both full, the other trainer one at eight tenths, not full
C21_Witness ==
    /\ Done("utilizationTable") /\ HasRows
    /\ Len(data.items) = 3
    /\ data.items[1].checkedInCount = N(9) /\ data.items[1].trainerName = Str("Ana")
    /\ data.items[2].checkedInCount = N(8) /\ data.items[2].trainerName = Str("Bea")
    /\ data.items[3].checkedInCount = N(12) /\ data.items[3].trainerName = Str("Ana")
    /\ \A i \in 1..3 : data.items[i].capacity = N(10)
    /\ \E r \in Rows(utilizationData.trainer) : r.name = "Ana" /\ r.fullSessions = 2
    /\ \E r \in Rows(utilizationData.trainer) : r.name = "Bea" /\ r.fullSessions = 0
    /\ \E r \in Rows(utilizationData.timeSlot) : r.name = "07:30" /\ r.fullSessions = 2
    /\ \E r \in Rows(utilizationData.dayOfWeek) : r.name = "Tuesday" /\ r.fullSessions = 0

\* row r of a utilization aggregation over the sessions S has the claimed efficiency
EfficiencyOf(r, S) ==
    /\ r.totalSessions = Cardinality(S)
    /\ IsRatio(r.efficiency, 100 * r.fullSessions, r.totalSessions)
    /\ Ge(r.efficiency, N(0)) /\ Ge(N(100), r.efficiency)

\* C22: in the time-slot, day-of-week and trainer aggregations, efficiency of every
\* group is fullSessions / totalSessions * 100, a number between 0 and 100.
C22_Efficiency ==
    Done("utilizationTable") =>
        /\ \A r \in Rows(utilizationData.timeSlot) : EfficiencyOf(r, SessionsWith("time", r.name))
        /\ \A r \in Rows(utilizationData.dayOfWeek) :
              EfficiencyOf(r, SessionsWith("dayOfWeek", r.name))
        /\ \A r \in Rows(utilizationData.trainer) :
              EfficiencyOf(r, SessionsWith("trainerName", r.name))

\* C22 witness: a trainer with an empty session, a session above the capacity and a
\* session at nine tenths: two of three sessions are full, efficiency 200/3
C22_Witness ==
    /\ Done("utilizationTable") /\ HasRows
    /\ Len(data.items) = 3
    /\ \A i \in 1..3 : data.items[i].trainerName = Str("Bea") /\ data.items[i].capacity = N(10)
    /\ data.items[1].checkedInCount = N(0)
    /\ data.items[2].checkedInCount = N(12)
    /\ data.items[3].checkedInCount = N(9)
    /\ utilizationData.trainer[1].fullSessions = 2
    /\ utilizationData.trainer[1].efficiency = Frac(200, 3)
    /\ utilizationData.timeSlot[1].efficiency = Frac(200, 3)
    /\ utilizationData.dayOfWeek[1].efficiency = Frac(200, 3)

\* the memoized summary of the group with this id
SummaryOf(id) == CHOOSE r \in Rows(classPerformanceData) : r.uniqueId = id

\* C23 (as claimed): in the two-table widget that passes its rows to ModernDataTable
\* components, when each table renders, the "Including Empty Sessions" table holds
\* the rows in ascending rank order and the "Excluding Empty Sessions" table holds
\* them in ascending rankWithoutEmpty order (the rows of a table are the first
\* entries of what its card draws, before the drill-downs).
C23_TablesInRankOrder ==
    Done("rankingTables") =>
        /\ Len(rowsWithEmpty) >= Len(classPerformanceData)
        /\ Len(rowsWithoutEmpty) >= Len(classPerformanceData)
        /\ \A p, q \in 1..Len(classPerformanceData) :
              p < q => SummaryOf(rowsWithEmpty[p]).rank < SummaryOf(rowsWithEmpty[q]).rank
        /\ \A p, q \in 1..Len(classPerformanceData) :
              p < q => SummaryOf(rowsWithoutEmpty[p]).rankWithoutEmpty
                           < SummaryOf(rowsWithoutEmpty[q]).rankWithoutEmpty

\* C26: for every group of the two-table widget built from records with
\* non-negative integer counts, emptySessions + sessionsWithCheckIns = sessionCount,
\* avgCheckInsWithoutEmpty >= avgCheckIns, and fillPercentageWithoutEmpty >=
\* fillPercentage whenever the sessions with check-ins have a positive total capacity.
C26_WithoutEmptyDominates ==
    Done("rankingTables") =>
        \A r \in Rows(classPerformanceData) :
            /\ r.emptySessions + r.sessionsWithCheckIns = r.sessionCount
            /\ r.sessionCount = Len(r.individualSessions)
            /\ Ge(r.avgCheckInsWithoutEmpty, r.avgCheckIns)
            /\ Total(NonEmptyOf(r), "capacity") > 0 =>
                   Ge(r.fillPercentageWithoutEmpty, r.fillPercentage)

\* C26 witness: a group with sessions of 0, 5 and 10 check-ins and capacity 10 each:
\* one empty and two with check-ins, averages 5 and 15/2, fill 50 and 75
C26_Witness ==
    /\ Done("rankingTables") /\ HasRows
    /\ \E r \in Rows(classPerformanceData) :
          /\ r.sessionCount = 3 /\ r.emptySessions = 1 /\ r.sessionsWithCheckIns = 2
          /\ r.avgCheckIns = N(5) /\ r.avgCheckInsWithoutEmpty = Frac(15, 2)
          /\ r.fillPercentage = N(50) /\ r.fillPercentageWithoutEmpty = N(75)

\* the sessions of S with check-ins and a positive capacity
HeldWithCapacity(S) ==
    {i \in S : IntOf(data.items[i].checkedInCount) > 0 /\ IntOf(data.items[i].capacity) > 0}

\* row r of a utilization aggregation over the sessions S counts each session in at
\* most one class
CountedOnce(r, S) ==
    /\ r.totalSessions = Cardinality(S)
    /\ r.emptySessions + r.lowAttendanceSessions + r.fullSessions <= r.totalSessions
    /\ r.emptySessions = Cardinality(WithoutCheckIns(S))
    /\ r.lowAttendanceSessions + r.fullSessions <= Cardinality(HeldWithCapacity(S))

\* C27: in the utilization aggregation each session is counted in at most one of
\* emptySessions, lowAttendanceSessions and fullSessions, so their sum is at most
\* totalSessions; a session with checkedInCount 0 is counted only as empty (the
\* low and full sessions are among those with check-ins), and a session with
\* check-ins and capacity 0 is counted in none (the low and full sessions are
\* among those with a positive capacity).
C27_ClassesDisjoint ==
    Done("utilizationTable") =>
        /\ \A r \in Rows(utilizationData.timeSlot) : CountedOnce(r, SessionsWith("time", r.name))
        /\ \A r \in Rows(utilizationData.dayOfWeek) :
              CountedOnce(r, SessionsWith("dayOfWeek", r.name))
        /\ \A r \in Rows(utilizationData.trainer) :
              CountedOnce(r, SessionsWith("trainerName", r.name))

\* C27 witness: a trainer with an empty session of capacity 10, a session of 4 in a
\* room of capacity 0 and a session of 4 of 10: one empty, one low, none full, and
\* the session of capacity 0 in no class
C27_Witness ==
    /\ Done("utilizationTable") /\ HasRows
    /\ Len(data.items) = 3
    /\ \A i \in 1..3 : data.items[i].trainerName = Str("Ana")
    /\ data.items[1].checkedInCount = N(0) /\ data.items[1].capacity = N(10)
    /\ data.items[2].checkedInCount = N(4) /\ data.items[2].capacity = N(0)
    /\ data.items[3].checkedInCount = N(4) /\ data.items[3].capacity = N(10)
    /\ utilizationData.trainer[1].emptySessions = 1
    /\ utilizationData.trainer[1].lowAttendanceSessions = 1
    /\ utilizationData.trainer[1].fullSessions = 0
    /\ utilizationData.trainer[1].totalSessions = 3

\* the class label of a session in the metric cards: cleanedClass, else classType,
\* else "Unknown"
CardLabelOf(session) ==
    IF session.cleanedClass.k = "string" /\ session.cleanedClass.s # "" THEN session.cleanedClass.s
    ELSE IF session.classType.k = "string" /\ session.classType.s # "" THEN session.classType.s
    ELSE "Unknown"

\* the sessions of a class label, its total attendance, and the input position at
\* which the label is first met
SessionsOfLabel(label) == {i \in 1..Len(data.items) : CardLabelOf(data.items[i]) = label}
AttendanceOfLabel(label) == TotalOrZero(Ascending(SessionsOfLabel(label)), "checkedInCount")
FirstOfLabel(label) ==
    CHOOSE i \in SessionsOfLabel(label) : \A j \in SessionsOfLabel(label) : i <= j

\* the average attendance of class a is at least that of class b
AtLeastAsAttended(a, b) ==
    AttendanceOfLabel(a) * Cardinality(SessionsOfLabel(b))
        >= AttendanceOfLabel(b) * Cardinality(SessionsOfLabel(a))

\* C29 (as claimed): in the metric cards, for non-empty input, bestClass is a class
\* group (sessions without a class label grouped under "Unknown") whose average
\* attendance is at least that of every other class group, with that average, and
\* among the groups tied for the maximum it is the one first met in the input.
C29_BestClass ==
    (Done("metricCards") /\ HasRows) =>
        LET best == metrics.bestClass.name
            labels == {CardLabelOf(data.items[i]) : i \in 1..Len(data.items)}
        IN  /\ best \in labels
            /\ IsRatio(metrics.bestClass.avgAttendance, AttendanceOfLabel(best),
                       Cardinality(SessionsOfLabel(best)))
            /\ \A other \in labels :
                  /\ AtLeastAsAttended(best, other)
                  /\ AtLeastAsAttended(other, best) => FirstOfLabel(best) <= FirstOfLabel(other)

-----------------------------------------------------------------------------
(* C21..C30, the interactive parts *)

\* C24 (as claimed): pressing Save in a summary section that is in edit mode ends
\* the edit mode of that section and leaves the edit flag of the other section as
\* it was, for both sections and whatever the two flags are.
C24_SaveEndsEditModeOfItsSection ==
    [][event'.kind = "save" =>
          /\ ~editingSummary'[event'.section]
          /\ editingSummary'[OtherSection(event'.section)]
                 = editingSummary[OtherSection(event'.section)]]_vars

\* the displayed note of a section
NoteOf(section) == IF section = "withEmpty" THEN summaryWithEmpty ELSE summaryWithoutEmpty

\* the note of a section in the next state
NoteAfter(section) == IF section = "withEmpty" THEN summaryWithEmpty' ELSE summaryWithoutEmpty'

\* C25 (as claimed): notes are persisted on every text change, not on Save: a
\* change in edit mode makes the new text the displayed note of its section and
\* stores its JSON encoding under the key of that section, leaving the note and the
\* item of the other section as they were; Edit, Save and Cancel change no note and
\* no stored item; and after a change followed by Cancel the displayed and the
\* stored note of the section are the changed text.
C25_NotesPersistedOnChange ==
    [][/\ event'.kind = "change" =>
            /\ NoteAfter(event'.section) = Str(event'.text)
            /\ localStorage'[StorageKey(event'.section)] = Str(Stringify(event'.text))
            /\ localStorage'[StorageKey(event'.section)].k = "string"
            /\ Parse(localStorage'[StorageKey(event'.section)].s) = Str(event'.text)
            /\ NoteAfter(OtherSection(event'.section)) = NoteOf(OtherSection(event'.section))
            /\ localStorage'[StorageKey(OtherSection(event'.section))]
                   = localStorage[StorageKey(OtherSection(event'.section))]
       /\ event'.kind \in {"edit", "save", "cancel"} =>
            /\ summaryWithEmpty' = summaryWithEmpty
            /\ summaryWithoutEmpty' = summaryWithoutEmpty
            /\ localStorage' = localStorage
            /\ expandedRows' = expandedRows
       /\ (event.kind = "change" /\ event'.kind = "cancel" /\ event'.section = event.section) =>
            /\ NoteAfter(event.section) = Str(event.text)
            /\ localStorage'[StorageKey(event.section)].k = "string"
            /\ Parse(localStorage'[StorageKey(event.section)].s) = Str(event.text)
            /\ ~editingSummary'[event.section]]_vars

\* C25 (as amended): a change in edit mode makes the new text the displayed note
\* of its section; when localStorage accepts the write, the item under the key of
\* that section becomes the JSON encoding of the text; when setItem throws, the
\* error is logged and the item stays as it was; either way the note and the item
\* of the other section are as they were. Edit, Save and Cancel change no note and
\* no stored item. After a change followed by Cancel the section is out of edit
\* mode, its displayed note is the changed text, and its stored note is the changed
\* text when the write was accepted and the item stored before it otherwise.
C25_NotesPersistedWhenStoreAccepts ==
    [][/\ event'.kind = "change" =>
            /\ NoteAfter(event'.section) = Str(event'.text)
            /\ ~event'.logged =>
                  /\ localStorage'[StorageKey(event'.section)] = Str(Stringify(event'.text))
                  /\ Parse(localStorage'[StorageKey(event'.section)].s) = Str(event'.text)
            /\ event'.logged =>
                  localStorage'[StorageKey(event'.section)] = localStorage[StorageKey(event'.section)]
            /\ NoteAfter(OtherSection(event'.section)) = NoteOf(OtherSection(event'.section))
            /\ localStorage'[StorageKey(OtherSection(event'.section))]
                   = localStorage[StorageKey(OtherSection(event'.section))]
       /\ event'.kind \in {"edit", "save", "cancel"} =>
            /\ summaryWithEmpty' = summaryWithEmpty
            /\ summaryWithoutEmpty' = summaryWithoutEmpty
            /\ localStorage' = localStorage
            /\ expandedRows' = expandedRows
            /\ ~event'.logged
       /\ (event.kind = "change" /\ event'.kind = "cancel" /\ event'.section = event.section) =>
            /\ NoteAfter(event.section) = Str(event.text)
            /\ localStorage' = localStorage
            /\ ~event.logged =>
                  /\ localStorage'[StorageKey(event.section)].k = "string"
                  /\ Parse(localStorage'[StorageKey(event.section)].s) = Str(event.text)
            /\ ~editingSummary'[event.section]]_vars

\* C25 witness: a note kept from last week was stored for the first section at
\* mount; the section was put in edit mode, its text changed to two lines while
\* setItem threw, and the edit cancelled: the two lines are displayed, the item
\* is still the note of last week, and the other section shows its initial note
\* and has no item
C25_Witness ==
    /\ widget = "expandableTables"
    /\ event = UserEvent("cancel", "withEmpty", "", "")
    /\ ~editingSummary.withEmpty
    /\ summaryWithEmpty = Str("Barre is full\nAdd a class")
    /\ localStorage[StorageKey("withEmpty")] = Str(Stringify("Kept from last week"))
    /\ summaryWithoutEmpty = Str(InitialSummary("withoutEmpty"))
    /\ localStorage[StorageKey("withoutEmpty")] = Null

\* the ids of the groups the widget shows
ShownIds == {classPerformanceData[p].uniqueId : p \in 1..Len(classPerformanceData)}

\* C28: toggleRowExpansion(id) flips the membership of exactly that id in the
\* expanded set and leaves the membership of every other id as it was; toggling
\* the same id twice gives the set back; and the set is shared by the two tables:
\* after every render a group has its drill-down in one table exactly when it has
\* it in the other, namely when its id is in the set (in both widgets).
C28_ToggleRowExpansion ==
    [][/\ event'.kind = "toggle" =>
            /\ (event'.id \in expandedRows') <=> (event'.id \notin expandedRows)
            /\ \A id \in (expandedRows \cup expandedRows') \ {event'.id} :
                  (id \in expandedRows') <=> (id \in expandedRows)
            /\ ToggledRows(expandedRows', event'.id) = expandedRows
       /\ (widget = "expandableTables" /\ rendered') =>
            \A p \in 1..Len(classPerformanceData') :
                LET id == classPerformanceData'[p].uniqueId
                    drill == "drill-" \o id
                IN  /\ (drill \in Rows(rowsWithEmpty')) <=> (id \in expandedRows')
                    /\ (drill \in Rows(rowsWithoutEmpty')) <=> (id \in expandedRows')
                    /\ id \in Rows(rowsWithEmpty') /\ id \in Rows(rowsWithoutEmpty')
       /\ (widget = "rankingTables" /\ rendered') =>
            \A p \in 1..Len(classPerformanceData') :
                LET id == classPerformanceData'[p].uniqueId
                IN  /\ ("drill-" \o id \in Rows(rowsWithEmpty')) <=> (id \in expandedRows')
                    /\ ("drill-no-empty-" \o id \in Rows(rowsWithoutEmpty'))
                           <=> (id \in expandedRows')
                    /\ id \in Rows(rowsWithEmpty') /\ id \in Rows(rowsWithoutEmpty')]_vars

\* C28 witness: of two groups the second was expanded and collapsed again and the
\* first is expanded: its drill-down row follows its row in both tables, the other
\* group has none
C28_Witness ==
    /\ widget = "expandableTables" /\ rendered
    /\ ShownIds = {"HIIT-fallback", "Barre-fallback"}
    /\ event = UserEvent("toggle", "", "Barre-fallback", "")
    /\ expandedRows = {"HIIT-fallback"}
    /\ "drill-HIIT-fallback" \in Rows(rowsWithEmpty) \cap Rows(rowsWithoutEmpty)
    /\ "drill-Barre-fallback" \notin Rows(rowsWithEmpty) \cup Rows(rowsWithoutEmpty)

\* the most recent non-empty text passed as `field` in the calls, or the default
RECURSIVE MostRecentText(_, _, _)
MostRecentText(log, field, default) ==
    IF Len(log) = 0 THEN default
    ELSE LET last == log[Len(log)][field]
         IN  IF last.k = "string" /\ last.s # ""
             THEN last.s
             ELSE MostRecentText(SubSeq(log, 1, Len(log) - 1), field, default)

\* C30 (as claimed): after any sequence of setLoading calls, isLoading is the
\* loading argument of the last call (false before any call), the children are
\* rendered exactly when isLoading is false and the loader is rendered with the
\* current title and subtitle otherwise, and loadingTitle and loadingSubtitle are
\* the most recent non-empty title and subtitle passed, the defaults if none was:
\* a call that omits them leaves the previous ones in place.
C30_LoadingOverlay ==
    (widget = "loadingProvider" /\ rendered) =>
        /\ isLoading = (IF Len(calls) = 0 THEN FALSE ELSE calls[Len(calls)].loading)
        /\ (overlay.kind = "children") <=> ~isLoading
        /\ (overlay.kind = "loader") <=> isLoading
        /\ loadingTitle = MostRecentText(calls, "title", DefaultTitle)
        /\ loadingSubtitle = MostRecentText(calls, "subtitle", DefaultSubtitle)
        /\ isLoading => overlay.title = loadingTitle /\ overlay.subtitle = loadingSubtitle

\* C30 (amended): at every moment the provider has drawn the children exactly when
\* its isLoading is false and the loader with its title and subtitle otherwise; and
\* once the state updates of the calls made so far are applied, which the next
\* render does, isLoading is the loading argument of the last call (false before
\* any call) and loadingTitle and loadingSubtitle are the most recent non-empty
\* title and subtitle passed, the defaults if none was. When no update is queued
\* the state of the provider itself has these values.
C30_LoadingOverlayOnceRendered ==
    (widget = "loadingProvider" /\ rendered) =>
        /\ overlay = Overlay(isLoading, loadingTitle, loadingSubtitle)
        /\ (overlay.kind = "children") <=> ~isLoading
        /\ Applied(queued, "isLoading")
               = (IF Len(calls) = 0 THEN FALSE ELSE calls[Len(calls)].loading)
        /\ Applied(queued, "loadingTitle") = MostRecentText(calls, "title", DefaultTitle)
        /\ Applied(queued, "loadingSubtitle")
               = MostRecentText(calls, "subtitle", DefaultSubtitle)
        /\ Len(queued) = 0 =>
              /\ isLoading = (IF Len(calls) = 0 THEN FALSE ELSE calls[Len(calls)].loading)
              /\ loadingTitle = MostRecentText(calls, "title", DefaultTitle)
              /\ loadingSubtitle = MostRecentText(calls, "subtitle", DefaultSubtitle)

\* C30 witness: a call with a title and a subtitle, then a call that omits the
\* title and passes an empty subtitle, and the render after them: the loader shows
\* the first call's texts
C30_Witness ==
    /\ widget = "loadingProvider" /\ rendered
    /\ Len(calls) = 2 /\ Len(queued) = 0
    /\ calls[1] = [loading |-> FALSE, title |-> Str("Syncing sessions"), subtitle |-> Str("Almost done")]
    /\ calls[2] = [loading |-> TRUE, title |-> Undefined, subtitle |-> Str("")]
    /\ isLoading
    /\ loadingTitle = "Syncing sessions" /\ loadingSubtitle = "Almost done"
    /\ overlay = [kind |-> "loader", title |-> "Syncing sessions", subtitle |-> "Almost done"]

====
